---- MODULE Spec2Model ----
(***************************************************************************)
(* Model of the enhanced CLI boilerplate: the chat client (src/cli.js),    *)
(* the tool server (src/server.js) and the Smithery gateway session        *)
(* (class SmitheryClient).                                                 *)
(*                                                                         *)
(* Seven specifications share the variables:                               *)
(*   Spec         the server and one CLI talking to it, turn by turn;      *)
(*   SpecSession  one SmitheryClient under arbitrary calls of its methods; *)
(*   SpecParse    parseToolCalls applied to drawn assistant texts;         *)
(*   SpecServer   the server under arbitrary requests to its two endpoints;*)
(*   SpecRecover  the server under searches while the gateway comes and    *)
(*                goes, with the failed connects counted;                  *)
(*   SpecOverlap  two requests to the server handled at the same time,     *)
(*                interleaved at their awaits;                             *)
(*   SpecNormalize  the two normalizers applied to drawn gateway answers.  *)
(***************************************************************************)
EXTENDS Naturals, Sequences, FiniteSets, TLC

VARIABLES
  \* ---- server process (src/server.js)
  env,               \* process.env: [smithery, brave : BOOLEAN] (credentials set)
  smithery,          \* the smitheryClient object (a SmitheryClient)
  smitheryConnected, \* module-level flag, server.js:76
  ordiscan,          \* the ordiscanClient object (used only when the key is set)
  ordiscanConnected, \* module-level flag, server.js:77
  gatewayUp,         \* environment: the hosted endpoint is reachable
  \* ---- CLI process (src/cli.js)
  pc,                \* where the CLI is
  availableTools,    \* cli.js:51, the listing fetched once by main()
  toolCalls,         \* handleChatMode: the parsed calls of this turn
  idx,               \* handleChatMode: position of the for loop (1-based)
  inflight,          \* calls whose POST /api/tools/call has no answer yet
  toolResults,       \* handleChatMode: toolResults
  hasErrors,         \* handleChatMode: hasErrors
  summarySent,       \* follow-up prompts sent to the AI in this turn
  lastMessageId,     \* cli.js:54, the id /feedback sends ("null": none)
  questions,         \* rl.question callbacks waiting for a line of input
  \* ---- observation (history) variables
  posts,             \* this turn's requests to /api/tools/call, in order
  output,            \* what the turn or command under way has printed last
  downConnects,      \* connect attempts made since the endpoint went down;
                     \* SpecRecover: failed since the last one that succeeded
  obs,               \* SpecSession: the last method call and its outcome;
                     \* SpecServer: the last request and its response;
                     \* Spec: the last /feedback command; SpecParse: the
                     \* listing before parseToolCalls ran
  failedEnsure,      \* SpecSession: consecutive failed attempts via ensureConnection
  text,              \* SpecParse: the assistant text drawn;
                     \* SpecNormalize: the gateway answer drawn
  parsed,            \* SpecParse: what parseToolCalls returned for it;
                     \* SpecNormalize: what the normalizer made of the answer
  running,           \* SpecOverlap: the requests under way, each with the
                     \* await it stands at and its local values
  objects            \* SpecOverlap: the state of each MCP Client object made

vars == <<env, smithery, smitheryConnected, ordiscan, ordiscanConnected,
          gatewayUp, pc, availableTools,
          toolCalls, idx, inflight, toolResults, hasErrors, summarySent,
          posts, downConnects, obs, failedEnsure, text, parsed,
          lastMessageId, output, questions, running, objects>>

serverVars == <<env, smithery, smitheryConnected, ordiscan, ordiscanConnected,
                gatewayUp, downConnects>>
cliVars    == <<pc, availableTools, toolCalls, idx, inflight, toolResults,
                hasErrors, summarySent, posts>>
sessionObs == <<obs, failedEnsure>>
uiVars     == <<lastMessageId, output, questions>>
overlapVars == <<running, objects>>
parseVars  == <<text, parsed>>

(***************************************************************************)
(* Bounds of the model and constants of the program.                       *)
(***************************************************************************)
MaxReconnectAttempts == 3   \* this.maxReconnectAttempts
MaxCalls == 3               \* tool-call markers in one assistant text
MaxTracked == 5             \* cap of the history counters
MaxBlocks == 2              \* blocks in one answer of the hosted search

(***************************************************************************)
(* SmitheryClient.  A session is [client, isConnected, reconnectAttempts]; *)
(* client is "null" or "obj" (an MCP Client instance).  net is what the    *)
(* network does during the call: [close, connect, request : BOOLEAN].      *)
(* Every method returns [s, ret, threw, connects, connected, requests,     *)
(* error]: the session afterwards, the value returned, whether it threw,   *)
(* how many connects it put on the network, how many of them succeeded,    *)
(* how many tool/list requests it sent, and the message of the error       *)
(* thrown ("" when none).                                                  *)
(***************************************************************************)
Net == [close : BOOLEAN, connect : BOOLEAN, request : BOOLEAN]

NewSmitheryClient ==
  [client |-> "null", isConnected |-> FALSE, reconnectAttempts |-> 0]

Outcome(s, ret, threw, connects, connected, requests) ==
  [s |-> s, ret |-> ret, threw |-> threw, connects |-> connects,
   connected |-> connected, requests |-> requests, error |-> ""]

\* throw new Error(message) out of a method
Thrown(s, connects, connected, requests, message) ==
  [s |-> s, ret |-> FALSE, threw |-> TRUE, connects |-> connects,
   connected |-> connected, requests |-> requests, error |-> message]

\* the message of the error a request of the MCP client fails with
TransportError == "transport error"

CannotConnect == "Cannot connect to Smithery server"

ListFailed == "Failed to list tools: "

CallFailed(name) == "Failed to call tool " \o name \o ": "

isAvailable(s) == s.isConnected /\ s.client # "null"

\* a close() that drops the client and leaves isConnected as it is
close_keepsConnected(s, net) ==
  IF s.client # "null" /\ net.close
    THEN [s EXCEPT !.client = "null"]
    ELSE s

\* close(): client.close() may throw; the catch leaves the fields as they were.
close(s, net) ==
  IF s.client # "null" /\ net.close
    THEN [s EXCEPT !.isConnected = FALSE, !.client = "null"]
    ELSE s

initialize_keepsCounter(s, net) ==
  LET s1 == [close(s, net) EXCEPT !.client = "obj"]
  IN  IF net.connect
        THEN Outcome([s1 EXCEPT !.isConnected = TRUE], TRUE, FALSE, 1, 1, 0)
        ELSE Outcome([s1 EXCEPT !.isConnected = FALSE], FALSE, FALSE, 1, 0, 0)

\* initialize(): close the old client, make a new one, connect it.
initialize(s, net) ==
  LET s1 == [close(s, net) EXCEPT !.client = "obj"]
  IN  IF net.connect
        THEN Outcome([s1 EXCEPT !.isConnected = TRUE, !.reconnectAttempts = 0],
                     TRUE, FALSE, 1, 1, 0)
        ELSE Outcome([s1 EXCEPT !.isConnected = FALSE], FALSE, FALSE, 1, 0, 0)

mayReconnect_offByOne(s) == s.reconnectAttempts <= MaxReconnectAttempts

\* the guard of the reconnect branch of ensureConnection()
mayReconnect(s) == s.reconnectAttempts < MaxReconnectAttempts

ensureConnection(s, net) ==
  IF s.isConnected /\ s.client # "null"
    THEN Outcome(s, TRUE, FALSE, 0, 0, 0)
    ELSE IF mayReconnect(s)
      THEN initialize([s EXCEPT !.reconnectAttempts = @ + 1], net)
      ELSE Outcome(s, FALSE, FALSE, 0, 0, 0)

\* the catch block as utils/smithery-client.js has it: the session is not touched
request_keepsConnected(s, net, failed) ==
  LET e == ensureConnection(s, net)
  IN  IF ~e.ret
        THEN Thrown(e.s, e.connects, e.connected, 0, CannotConnect)
        ELSE IF net.request
          THEN Outcome(e.s, TRUE, FALSE, e.connects, e.connected, 1)
          ELSE Thrown(e.s, e.connects, e.connected, 1, failed \o TransportError)

\* listTools() and callTool() have the same shape: ensureConnection(), then one
\* request; a failed request marks the session disconnected and throws an error
\* whose message starts with failed.
request(s, net, failed) ==
  LET e == ensureConnection(s, net)
  IN  IF ~e.ret
        THEN Thrown(e.s, e.connects, e.connected, 0, CannotConnect)
        ELSE IF net.request
          THEN Outcome(e.s, TRUE, FALSE, e.connects, e.connected, 1)
          ELSE Thrown([e.s EXCEPT !.isConnected = FALSE], e.connects,
                      e.connected, 1, failed \o TransportError)

listTools(s, net) == request(s, net, ListFailed)

\* a callTool that reconnects and sends the request again after a failure
callTool_retries(name, s, net) ==
  LET r1 == request(s, net, CallFailed(name))
      r2 == request(r1.s, net, CallFailed(name))
  IN  IF r1.threw /\ r1.requests > 0
        THEN [r2 EXCEPT !.connects = @ + r1.connects,
                        !.connected = @ + r1.connected,
                        !.requests = @ + r1.requests]
        ELSE r1

callTool(name, s, net) == request(s, net, CallFailed(name))

(***************************************************************************)
(* The server.  A descriptor is [name, source]; the four built-in tools    *)
(* carry no source field ("none").  e is process.env, flag is              *)
(* smitheryConnected (ordiscanConnected), s is smitheryClient              *)
(* (ordiscanClient).  sv is the server's state, the two clients with their *)
(* flags; io is what the outside does while one request is handled: net    *)
(* and onet for the two gateways, localOk for the Brave API and the        *)
(* AgentHustle client, content for the answer of the gateway.              *)
(***************************************************************************)
Tool(name, source) == [name |-> name, source |-> source]

BuiltinTools ==
  <<Tool("rugcheck", "none"), Tool("trending-tokens", "none"),
    Tool("wallet-balance", "none"), Tool("crypto-chat", "none")>>

\* what smitheryClient.listTools() returns for the Brave Search server
SmitheryTools ==
  <<Tool("brave_web_search", "smithery"), Tool("brave_local_search", "smithery")>>

\* the case labels of the Ordiscan branch, in their order
OrdiscanNames ==
  <<"ordiscan_address_brc20_activity", "ordiscan_address_brc20",
    "ordiscan_brc20_info", "ordiscan_brc20_list", "ordiscan_collection_info",
    "ordiscan_collection_inscriptions", "ordiscan_collections_list",
    "ordiscan_inscription_info", "ordiscan_inscription_traits",
    "ordiscan_inscription_transfers", "ordiscan_inscriptions_activity",
    "ordiscan_inscriptions_detail", "ordiscan_inscriptions_list",
    "ordiscan_address_inscriptions", "ordiscan_address_rare_sats",
    "ordiscan_rune_market", "ordiscan_rune_name_unlock",
    "ordiscan_runes_activity", "ordiscan_address_runes",
    "ordiscan_runes_list", "ordiscan_sat_info", "ordiscan_tx_info",
    "ordiscan_tx_inscription_transfers", "ordiscan_tx_inscriptions",
    "ordiscan_tx_runes", "ordiscan_utxo_rare_sats",
    "ordiscan_utxo_sat_ranges", "ordiscan_address_utxos", "ordiscan_main">>

\* what ordiscanClient.listTools() returns
OrdiscanTools == [i \in 1..Len(OrdiscanNames) |-> Tool(OrdiscanNames[i], "ordiscan")]

IsOrdiscan(name) == \E i \in 1..Len(OrdiscanNames) : OrdiscanNames[i] = name

LocalBraveTool == <<Tool("brave-search", "local")>>

Server(s, flag, o, oflag) ==
  [smithery |-> s, smitheryConnected |-> flag,
   ordiscan |-> o, ordiscanConnected |-> oflag]

ServerOut(s, flag, ret, connects) ==
  [s |-> s, flag |-> flag, ret |-> ret, connects |-> connects]

\* a reconnect that goes through ensureConnection() and its bound
initializeSmithery_ensures(e, flag, s, net) ==
  IF ~e.smithery
    THEN ServerOut(s, flag, FALSE, 0)
    ELSE LET r == ensureConnection(s, net)
         IN  ServerOut(r.s, r.ret, r.ret, r.connects)

initializeSmithery(e, flag, s, net) ==
  IF ~e.smithery
    THEN ServerOut(s, flag, FALSE, 0)
    ELSE LET r == initialize(s, net)
         IN  ServerOut(r.s, r.ret, r.ret, r.connects)

\* ordiscanClient is null exactly when ORDISCAN_API_KEY is not set
initializeOrdiscan(e, flag, s, net) ==
  IF ~e.smithery \/ ~e.ordiscan
    THEN ServerOut(s, flag, FALSE, 0)
    ELSE LET r == initialize(s, net)
         IN  ServerOut(r.s, r.ret, r.ret, r.connects)

\* a section that asks the session whatever the flag says, so that
\* listTools() reconnects a disconnected session
hostedSection_reconnects(flag, s, net, listed) ==
  LET r == listTools(s, net)
  IN  [s |-> r.s, flag |-> ~r.threw,
       tools |-> IF r.threw THEN <<>> ELSE listed, connects |-> r.connects]

\* one "Add ... tools if connected" section of POST /api/tools/list
hostedSection(flag, s, net, listed) ==
  LET r == listTools(s, net)
  IN  IF flag /\ isAvailable(s)
        THEN [s |-> r.s, flag |-> IF r.threw THEN FALSE ELSE flag,
              tools |-> IF r.threw THEN <<>> ELSE listed, connects |-> r.connects]
        ELSE [s |-> s, flag |-> flag, tools |-> <<>>, connects |-> 0]

\* a listing that offers the local search whenever BRAVE_API_KEY is set
toolsList_localAlways(e, sv, io) ==
  LET a     == hostedSection(sv.smitheryConnected, sv.smithery, io.net,
                             SmitheryTools)
      b     == hostedSection(sv.ordiscanConnected, sv.ordiscan, io.onet,
                             OrdiscanTools)
      local == IF e.brave THEN LocalBraveTool ELSE <<>>
  IN  [sv |-> Server(a.s, a.flag, b.s, b.flag),
       tools |-> BuiltinTools \o a.tools \o b.tools \o local,
       connects |-> a.connects]

\* POST /api/tools/list: [sv, tools, connects]
toolsList(e, sv, io) ==
  LET a     == hostedSection(sv.smitheryConnected, sv.smithery, io.net,
                             SmitheryTools)
      b     == hostedSection(sv.ordiscanConnected, sv.ordiscan, io.onet,
                             OrdiscanTools)
      local == IF e.brave /\ ~a.flag THEN LocalBraveTool ELSE <<>>
  IN  [sv |-> Server(a.s, a.flag, b.s, b.flag),
       tools |-> BuiltinTools \o a.tools \o b.tools \o local,
       connects |-> a.connects]

\* the two response bodies of POST /api/tools/call
Success(name, result) ==
  [status |-> 200, data |-> [success |-> TRUE, result |-> result, tool |-> name]]

\* a 500 body that still carries a result
Failure_withResult(name, error) ==
  [status |-> 500,
   data |-> [success |-> FALSE, result |-> <<>>, error |-> error, tool |-> name]]

Failure(name, error) ==
  [status |-> 500, data |-> [success |-> FALSE, error |-> error, tool |-> name]]

\* what one branch of the switch leaves: the client and flag it works on, the
\* connects and the Brave API calls it made, and the response
CallOut(s, flag, connects, locals, reply) ==
  [s |-> s, flag |-> flag, connects |-> connects, locals |-> locals,
   reply |-> reply]

(***************************************************************************)
(* The answer of the gateway to callTool is [content |-> items]; an item   *)
(* is [text |-> t] or has no text field.  For the Brave Search server t is *)
(* the sequence of the blocks that blank lines separate (<<>>: the empty   *)
(* string), a block the sequence of its lines, a line [prefix, value]:     *)
(* what it starts with and the rest of it, trimmed.  For Ordiscan t is a   *)
(* string.                                                                 *)
(***************************************************************************)
Ln(prefix, value) == [prefix |-> prefix, value |-> value]

\* content && content[0] && content[0].text, with empty the falsy text
hasText(res, empty) ==
  /\ Len(res.content) > 0
  /\ "text" \in DOMAIN res.content[1]
  /\ res.content[1].text # empty

\* the chain of description.replace(...): tags removed, entities decoded
stripAndDecode(value) ==
  CASE value = "<b>fast</b> &amp; safe" -> "fast & safe"
    [] value = "a &lt; b"              -> "a < b"
    [] OTHER                           -> value

\* the for loop over the lines of a block: the last line of a kind wins
RECURSIVE parseLines(_, _)
parseLines(lines, acc) ==
  IF lines = <<>> THEN acc
  ELSE LET line == Head(lines)
           next == CASE line.prefix = "Title: " ->
                          [acc EXCEPT !.title = line.value]
                     [] line.prefix = "Description: " ->
                          [acc EXCEPT !.description = stripAndDecode(line.value)]
                     [] line.prefix = "URL: " ->
                          [acc EXCEPT !.url = line.value]
                     [] OTHER -> acc
       IN  parseLines(Tail(lines), next)

parseBlock(block) ==
  parseLines(block, [title |-> "", description |-> "", url |-> ""])

keepBlock_either(r) == r.title # "" \/ r.url # ""

\* if (title && url)
keepBlock(r) == r.title # "" /\ r.url # ""

RECURSIVE parseBlocks(_)
parseBlocks(blocks) ==
  IF blocks = <<>> THEN <<>>
  ELSE LET r == parseBlock(Head(blocks))
       IN  (IF keepBlock(r) THEN <<r>> ELSE <<>>) \o parseBlocks(Tail(blocks))

\* block.trim() is not empty
NonBlank(block) == block # <<>>

\* what a piece of code inside the try block comes to: a value, or an exception
Value(v) == [threw |-> FALSE, value |-> v]

Raised == [threw |-> TRUE, value |-> <<>>]

parsedResults_throws(res) ==
  IF hasText(res, <<>>)
    THEN Value(parseBlocks(SelectSeq(res.content[1].text, NonBlank)))
    ELSE Raised

\* let parsedResults = []; if (...) { ... parsedResults.push(...) ... }
parsedResults(res) ==
  IF hasText(res, <<>>)
    THEN Value(parseBlocks(SelectSeq(res.content[1].text, NonBlank)))
    ELSE Value(<<>>)

\* the result of the two hosted search branches
searchResult(res) ==
  [total |-> Len(parsedResults(res).value),
   results |-> parsedResults(res).value, source |-> "smithery"]

\* JSON.parse(text): [json |-> t] is the value the JSON text t denotes
ValidJson == {"{}", "{\"balance\":1}", "[]", "null"}

EmptyObject == [json |-> "{}"]

parsedData_rethrows(res) ==
  IF hasText(res, "")
    THEN IF res.content[1].text \in ValidJson
           THEN Value([json |-> res.content[1].text])
           ELSE Raised
    ELSE Value(EmptyObject)

\* let parsedData = {}; try { JSON.parse(text) } catch { { data: text } }
parsedData(res) ==
  IF hasText(res, "")
    THEN IF res.content[1].text \in ValidJson
           THEN Value([json |-> res.content[1].text])
           ELSE Value([data |-> res.content[1].text])
    ELSE Value(EmptyObject)

\* the words of a tool name (its parts between underscores)
Words(name) ==
  CASE name = "ordiscan_address_brc20_activity" ->
         <<"ordiscan", "address", "brc20", "activity">>
    [] name = "ordiscan_address_brc20" ->
         <<"ordiscan", "address", "brc20">>
    [] name = "ordiscan_brc20_info" ->
         <<"ordiscan", "brc20", "info">>
    [] name = "ordiscan_brc20_list" ->
         <<"ordiscan", "brc20", "list">>
    [] name = "ordiscan_collection_info" ->
         <<"ordiscan", "collection", "info">>
    [] name = "ordiscan_collection_inscriptions" ->
         <<"ordiscan", "collection", "inscriptions">>
    [] name = "ordiscan_collections_list" ->
         <<"ordiscan", "collections", "list">>
    [] name = "ordiscan_inscription_info" ->
         <<"ordiscan", "inscription", "info">>
    [] name = "ordiscan_inscription_traits" ->
         <<"ordiscan", "inscription", "traits">>
    [] name = "ordiscan_inscription_transfers" ->
         <<"ordiscan", "inscription", "transfers">>
    [] name = "ordiscan_inscriptions_activity" ->
         <<"ordiscan", "inscriptions", "activity">>
    [] name = "ordiscan_inscriptions_detail" ->
         <<"ordiscan", "inscriptions", "detail">>
    [] name = "ordiscan_inscriptions_list" ->
         <<"ordiscan", "inscriptions", "list">>
    [] name = "ordiscan_address_inscriptions" ->
         <<"ordiscan", "address", "inscriptions">>
    [] name = "ordiscan_address_rare_sats" ->
         <<"ordiscan", "address", "rare", "sats">>
    [] name = "ordiscan_rune_market" ->
         <<"ordiscan", "rune", "market">>
    [] name = "ordiscan_rune_name_unlock" ->
         <<"ordiscan", "rune", "name", "unlock">>
    [] name = "ordiscan_runes_activity" ->
         <<"ordiscan", "runes", "activity">>
    [] name = "ordiscan_address_runes" ->
         <<"ordiscan", "address", "runes">>
    [] name = "ordiscan_runes_list" ->
         <<"ordiscan", "runes", "list">>
    [] name = "ordiscan_sat_info" ->
         <<"ordiscan", "sat", "info">>
    [] name = "ordiscan_tx_info" ->
         <<"ordiscan", "tx", "info">>
    [] name = "ordiscan_tx_inscription_transfers" ->
         <<"ordiscan", "tx", "inscription", "transfers">>
    [] name = "ordiscan_tx_inscriptions" ->
         <<"ordiscan", "tx", "inscriptions">>
    [] name = "ordiscan_tx_runes" ->
         <<"ordiscan", "tx", "runes">>
    [] name = "ordiscan_utxo_rare_sats" ->
         <<"ordiscan", "utxo", "rare", "sats">>
    [] name = "ordiscan_utxo_sat_ranges" ->
         <<"ordiscan", "utxo", "sat", "ranges">>
    [] name = "ordiscan_address_utxos" ->
         <<"ordiscan", "address", "utxos">>
    [] name = "ordiscan_main" ->
         <<"ordiscan", "main">>
    [] OTHER -> <<name>>

\* name.includes(key), for the keys of the else-if chain
includes(name, key) ==
  LET hasKey(word) ==
        CASE key = "inscription" -> word \in {"inscription", "inscriptions"}
          [] key = "rune"        -> word \in {"rune", "runes"}
          [] key = "collection"  -> word \in {"collection", "collections"}
          [] key = "tx"          -> word \in {"tx", "utxo", "utxos"}
          [] key = "utxo"        -> word \in {"utxo", "utxos"}
          [] key = "sat"         -> word \in {"sat", "sats"}
          [] OTHER               -> word = key
  IN  \E i \in 1..Len(Words(name)) : hasKey(Words(name)[i])

\* a chain that looks at the first word after "ordiscan" only
subjectField_byFirstWord(name) ==
  LET word == Words(name)[IF Len(Words(name)) > 1 THEN 2 ELSE 1]
  IN  CASE word = "address"                        -> "address"
        [] word \in {"inscription", "inscriptions"} -> "inscription"
        [] word = "brc20"                          -> "token"
        [] word \in {"rune", "runes"}               -> "rune"
        [] word \in {"collection", "collections"}   -> "collection"
        [] word = "tx"                             -> "transaction"
        [] word = "utxo"                           -> "utxo"
        [] word = "sat"                            -> "satoshi"
        [] OTHER                                   -> "none"

\* the field that names the subject, chosen by the else-if chain
subjectField(name) ==
  CASE includes(name, "address")     -> "address"
    [] includes(name, "inscription") -> "inscription"
    [] includes(name, "brc20")       -> "token"
    [] includes(name, "rune")        -> "rune"
    [] includes(name, "collection")  -> "collection"
    [] includes(name, "tx")          -> "transaction"
    [] includes(name, "utxo")        -> "utxo"
    [] includes(name, "sat")         -> "satoshi"
    [] OTHER                         -> "none"

ordiscanResult(name, res) ==
  [subject |-> subjectField(name), data |-> parsedData(res).value,
   tool |-> name,
   source |-> "ordiscan"]

BraveError == "Brave Search API error: request failed"

\* new BraveSearchClient(...).search(...) and the shaping of its answer (the
\* answer itself is not looked into)
localBrave(name, source, localOk, prefix) ==
  IF localOk
    THEN Success(name, [source |-> source])
    ELSE Failure(name, prefix \o BraveError)

\* case 'brave-search' / 'brave_web_search'
braveCall(name, e, flag, s, net, localOk, res) ==
  LET i  == IF flag THEN ServerOut(s, flag, TRUE, 0)
                    ELSE initializeSmithery(e, flag, s, net)
      up == flag \/ i.ret
      c  == callTool("brave_web_search", i.s, net)
  IN  IF up /\ name = "brave_web_search"
        THEN IF ~c.threw /\ ~parsedResults(res).threw
               THEN CallOut(c.s, i.flag, i.connects + c.connects, 0,
                            Success(name, searchResult(res)))
               ELSE IF e.brave
                 THEN CallOut(c.s, FALSE, i.connects + c.connects, 1,
                              localBrave(name, "local-fallback", localOk, ""))
                 ELSE CallOut(c.s, FALSE, i.connects + c.connects, 0,
                        Failure(name,
                          "Smithery Brave Search failed and no local API key available: "
                            \o c.error))
        ELSE IF e.brave
          THEN CallOut(i.s, i.flag, i.connects, 1,
                 localBrave(name, "local", localOk, "Local Brave Search failed: "))
          ELSE CallOut(i.s, i.flag, i.connects, 0,
                 Failure(name,
                   "Brave Search not available - no Smithery connection and no local API key configured"))

\* the fallback of the brave_web_search branch, copied to brave_local_search
braveLocalCall_fallsBack(name, e, flag, s, net, res) ==
  LET i  == IF flag THEN ServerOut(s, flag, TRUE, 0)
                    ELSE initializeSmithery(e, flag, s, net)
      up == flag \/ i.ret
      c  == callTool("brave_local_search", i.s, net)
  IN  IF up
        THEN IF ~c.threw
               THEN CallOut(c.s, i.flag, i.connects + c.connects, 0,
                            Success(name, searchResult(res)))
               ELSE IF e.brave
                 THEN CallOut(c.s, FALSE, i.connects + c.connects, 1,
                              localBrave(name, "local-fallback", TRUE, ""))
                 ELSE CallOut(c.s, FALSE, i.connects + c.connects, 0,
                        Failure(name, "Smithery Local Search failed: " \o c.error))
        ELSE CallOut(i.s, i.flag, i.connects, 0,
               Failure(name,
                 "Smithery Local Search not available - no Smithery connection"))

\* case 'brave_local_search'
braveLocalCall(name, e, flag, s, net, res) ==
  LET i  == IF flag THEN ServerOut(s, flag, TRUE, 0)
                    ELSE initializeSmithery(e, flag, s, net)
      up == flag \/ i.ret
      c  == callTool("brave_local_search", i.s, net)
  IN  IF up
        THEN IF ~c.threw /\ ~parsedResults(res).threw
               THEN CallOut(c.s, i.flag, i.connects + c.connects, 0,
                            Success(name, searchResult(res)))
               ELSE CallOut(c.s, FALSE, i.connects + c.connects, 0,
                      Failure(name, "Smithery Local Search failed: " \o c.error))
        ELSE CallOut(i.s, i.flag, i.connects, 0,
               Failure(name,
                 "Smithery Local Search not available - no Smithery connection"))

\* the 29 case labels of the Ordiscan tools
ordiscanCall(name, e, flag, s, net, res) ==
  LET i  == IF flag THEN ServerOut(s, flag, TRUE, 0)
                    ELSE initializeOrdiscan(e, flag, s, net)
      up == flag \/ i.ret
      c  == callTool(name, i.s, net)
  IN  IF up
        THEN IF ~e.ordiscan
               THEN CallOut(i.s, FALSE, i.connects, 0,
                      Failure(name, "Ordiscan " \o name \o " failed: "
                        \o "ORDISCAN_API_KEY environment variable is required but not set"))
             ELSE IF ~c.threw /\ ~parsedData(res).threw
               THEN CallOut(c.s, i.flag, i.connects + c.connects, 0,
                            Success(name, ordiscanResult(name, res)))
               ELSE CallOut(c.s, FALSE, i.connects + c.connects, 0,
                      Failure(name, "Ordiscan " \o name \o " failed: " \o c.error))
        ELSE CallOut(i.s, i.flag, i.connects, 0,
               Failure(name, name \o " not available - no Ordiscan connection"))

HeadlessChatError == "headlessChat failed"

\* POST /api/tools/call: [sv, connects, locals, reply]
toolsCall(name, e, sv, io) ==
  LET onSmithery(out) ==
        [sv |-> Server(out.s, out.flag, sv.ordiscan, sv.ordiscanConnected),
         connects |-> out.connects, locals |-> out.locals, reply |-> out.reply]
      onOrdiscan(out) ==
        [sv |-> Server(sv.smithery, sv.smitheryConnected, out.s, out.flag),
         connects |-> 0, locals |-> out.locals, reply |-> out.reply]
      untouched(reply) ==
        [sv |-> sv, connects |-> 0, locals |-> 0, reply |-> reply]
  IN  CASE name \in {"brave-search", "brave_web_search"} ->
             onSmithery(braveCall(name, e, sv.smitheryConnected, sv.smithery,
                                  io.net, io.localOk, io.content))
        [] name = "brave_local_search" ->
             onSmithery(braveLocalCall(name, e, sv.smitheryConnected,
                                       sv.smithery, io.net, io.content))
        [] name = "rugcheck" ->
             \* no try/catch around headlessChat: its exception reaches the
             \* outer catch
             untouched(IF io.localOk
                         THEN Success(name, [source |-> "agenthustle"])
                         ELSE Failure(name, HeadlessChatError))
        [] name \in {"trending-tokens", "wallet-balance"} ->
             \* their own try/catch turns an exception into a result
             untouched(Success(name,
               IF io.localOk THEN [source |-> "agenthustle"]
               ELSE [source |-> "agenthustle",
                     message |-> "Error: " \o HeadlessChatError]))
        [] name = "crypto-chat" ->
             untouched(Success(name,
               IF io.localOk THEN [source |-> "agenthustle"]
               ELSE [source |-> "agenthustle",
                     response |-> "Sorry, I encountered an error: "
                                    \o HeadlessChatError]))
        [] IsOrdiscan(name) ->
             onOrdiscan(ordiscanCall(name, e, sv.ordiscanConnected, sv.ordiscan,
                                     io.onet, io.content))
        [] OTHER ->
             untouched(Failure(name, "Unknown tool: " \o name))

\* the message of the TypeError a read of params.field throws when the request
\* has no params
TypeErrorOf(field) ==
  "Cannot read properties of undefined (reading '" \o field \o "')"

\* the property of params an Ordiscan result reads first
paramOf(name) ==
  CASE subjectField(name) = "address"     -> "address"
    [] subjectField(name) = "inscription" -> "id"
    [] subjectField(name) = "token"       -> "tick"
    [] subjectField(name) = "rune"        -> "name"
    [] subjectField(name) = "collection"  -> "slug"
    [] subjectField(name) = "transaction" -> "txid"
    [] subjectField(name) = "utxo"        -> "utxo"
    [] subjectField(name) = "satoshi"     -> "ordinal"
    [] OTHER                              -> ""

\* POST /api/tools/call with a body that has no params: the first read of a
\* property of params throws a TypeError, which the catch around that line
\* handles
toolsCallNoParams(name, e, sv, io) ==
  LET with == toolsCall(name, e, sv, io)
      i    == IF sv.smitheryConnected
                THEN ServerOut(sv.smithery, TRUE, TRUE, 0)
                ELSE initializeSmithery(e, sv.smitheryConnected, sv.smithery,
                                        io.net)
      logged(field) ==
        [sv |-> Server(i.s, i.flag, sv.ordiscan, sv.ordiscanConnected),
         connects |-> i.connects, locals |-> 0,
         reply |-> Failure(name, TypeErrorOf(field))]
      untouched(field) ==
        [sv |-> sv, connects |-> 0, locals |-> 0,
         reply |-> Failure(name, TypeErrorOf(field))]
  IN  CASE name \in {"brave-search", "brave_web_search"} ->
             IF (i.ret /\ name = "brave_web_search") \/ e.brave
               THEN logged("query") ELSE with
        [] name = "brave_local_search" ->
             IF i.ret THEN logged("query") ELSE with
        [] name = "rugcheck"        -> untouched("token")
        [] name = "trending-tokens" -> untouched("chain")
        [] name = "wallet-balance"  -> untouched("address")
        [] name = "crypto-chat"     -> untouched("message")
        [] IsOrdiscan(name) ->
             IF with.reply.status = 200 /\ paramOf(name) # ""
               THEN [sv |-> Server(with.sv.smithery, with.sv.smitheryConnected,
                                   with.sv.ordiscan, FALSE),
                     connects |-> with.connects, locals |-> 0,
                     reply |-> Failure(name, "Ordiscan " \o name \o " failed: "
                                               \o TypeErrorOf(paramOf(name)))]
               ELSE with
        [] OTHER -> with

(***************************************************************************)
(* parseToolCalls.  An assistant text is the sequence of its               *)
(* <tool>...</tool> bodies (the text between markers is not looked at).    *)
(* A body is [target, call, args]: the identifier written in front of the  *)
(* parenthesis, whether a parenthesised part follows it, and what the      *)
(* text between the parentheses is ("object": an object literal,           *)
(* "invalid": text that eval() rejects with a SyntaxError, "arithmetic":   *)
(* an expression such as 1 + 2, "assignment": the expression               *)
(* availableTools = []).                                                   *)
(***************************************************************************)
\* the maximal runs of \w characters of a name, and what separates them
WordRuns(name) ==
  CASE name = "brave-search"    -> <<"brave", "-", "search">>
    [] name = "trending-tokens" -> <<"trending", "-", "tokens">>
    [] name = "wallet-balance"  -> <<"wallet", "-", "balance">>
    [] name = "crypto-chat"     -> <<"crypto", "-", "chat">>
    [] OTHER                    -> <<name>>

Body(target, call, args) == [target |-> target, call |-> call, args |-> args]

\* functionCall.match(/(\w+)\((.*)\)/s): the leftmost match starts at the \w run
\* that touches the parenthesis, so toolName is the last run of the target
toolMatch(body) ==
  LET runs == WordRuns(body.target)
  IN  IF body.call /\ runs[Len(runs)] # "-"
        THEN [matched |-> TRUE, toolName |-> runs[Len(runs)], paramsStr |-> body.args]
        ELSE [matched |-> FALSE]

HasTool(tools, name) == \E i \in 1..Len(tools) : tools[i].name = name

FindTool(tools, name) ==
  tools[CHOOSE i \in 1..Len(tools) :
          tools[i].name = name /\ \A j \in 1..(i - 1) : tools[j].name # name]

\* the mapping between the two naming conventions
mappedToolName(toolName, tools) ==
  IF toolName = "brave_web_search" \/ toolName = "brave-search"
    THEN IF HasTool(tools, "brave_web_search") THEN "brave_web_search"
         ELSE IF HasTool(tools, "brave-search") THEN "brave-search"
         ELSE toolName
    ELSE toolName

\* eval(`(${paramsStr})`), a direct eval inside the module: the text is run as
\* an expression with the module's bindings in scope.  [threw, value, tools]:
\* whether it threw, the kind of value it came to, and availableTools after it
evalParams(paramsStr, tools) ==
  CASE paramsStr = "object"     -> [threw |-> FALSE, value |-> "object", tools |-> tools]
    [] paramsStr = "arithmetic" -> [threw |-> FALSE, value |-> "number", tools |-> tools]
    [] paramsStr = "assignment" -> [threw |-> FALSE, value |-> "array", tools |-> <<>>]
    [] OTHER                    -> [threw |-> TRUE, value |-> "", tools |-> tools]

\* availableTools after the callback has run on body
toolsAfter(body, tools) ==
  LET m == toolMatch(body)
  IN  IF m.matched THEN evalParams(m.paramsStr, tools).tools ELSE tools

\* the callback of matches.map(...): <<>> stands for null; marker is a history
\* field, the identifier as the assistant wrote it
parseOne(body, tools) ==
  LET m == toolMatch(body)
      e == evalParams(m.paramsStr, tools)
  IN  IF m.matched /\ ~e.threw
        THEN <<[name |-> mappedToolName(m.toolName, e.tools),
                arguments |-> e.value, marker |-> body.target]>>
        ELSE <<>>

RECURSIVE parseToolCalls(_, _)
parseToolCalls(content, tools) ==
  IF content = <<>> THEN <<>>
  ELSE parseOne(Head(content), tools)
         \o parseToolCalls(Tail(content), toolsAfter(Head(content), tools))

\* availableTools once parseToolCalls(content) has returned
RECURSIVE evalEffects(_, _)
evalEffects(content, tools) ==
  IF content = <<>> THEN tools
  ELSE evalEffects(Tail(content), toolsAfter(Head(content), tools))

(***************************************************************************)
(* handleChatMode: the follow-up prompt.  A ToolResult is                  *)
(* [toolName, success, result] or [toolName, success, error]; the field    *)
(* call is a history field, the position of the call among the parsed ones.*)
(***************************************************************************)
Succeeded(r) == r.success
Failed(r)    == ~r.success

Line(r) ==
  [call |-> r.call, toolName |-> r.toolName,
   body |-> IF r.success THEN r.result ELSE r.error]

\* the line of the all-succeeded branch prints r.result whatever r is
ResultLine(r) ==
  [call |-> r.call, toolName |-> r.toolName,
   body |-> IF "result" \in DOMAIN r THEN r.result ELSE "undefined"]

Reverse(q) == [i \in 1..Len(q) |-> q[Len(q) + 1 - i]]

Lines_reversed(results) == Reverse([i \in 1..Len(results) |-> Line(results[i])])

Lines(results) == [i \in 1..Len(results) |-> Line(results[i])]

followUpPrompt_noSections(results, errors) ==
  [labeled |-> FALSE, executed |-> Len(results),
   successful |-> [i \in 1..Len(results) |-> ResultLine(results[i])],
   failed |-> <<>>]

followUpPrompt(results, errors) ==
  IF errors
    THEN [labeled |-> TRUE, executed |-> Len(results),
          successful |-> Lines(SelectSeq(results, Succeeded)),
          failed |-> Lines(SelectSeq(results, Failed))]
    ELSE [labeled |-> FALSE, executed |-> Len(results),
          successful |-> [i \in 1..Len(results) |-> ResultLine(results[i])],
          failed |-> <<>>]

followUps_perTool(results, errors) ==
  [i \in 1..Len(results) |-> followUpPrompt(<<results[i]>>, ~results[i].success)]

\* the client.chat calls that carry tool results: one, with the whole prompt
followUps(results, errors) == <<followUpPrompt(results, errors)>>

\* axios.post: a non-2xx status is thrown as an error with axios's own message
AxiosError == "Request failed with status code 500"

\* axios.post when the server cannot be reached: no response at all
NoResponse == [status |-> 0, error |-> "connect ECONNREFUSED"]

NotFoundError(name) == "Tool " \o name \o " not found"

\* history: the error text of the server's response, "" when it sent none
Said(reply) == IF reply.status = 500 THEN reply.data.error ELSE ""

\* a catch block that reads error.response?.data?.error and nothing else
resultOf_readsBody(i, name, reply) ==
  IF reply.status = 200
    THEN [call |-> i, toolName |-> name, success |-> TRUE,
          result |-> reply.data.result, said |-> Said(reply)]
    ELSE [call |-> i, toolName |-> name, success |-> FALSE,
          error |-> Said(reply), said |-> Said(reply)]

\* the ToolResult pushed for the answer of POST /api/tools/call (said is a
\* history field)
resultOf(i, name, reply) ==
  IF reply.status = 200
    THEN IF reply.data.success
           THEN [call |-> i, toolName |-> name, success |-> TRUE,
                 result |-> reply.data.result, said |-> Said(reply)]
           ELSE [call |-> i, toolName |-> name, success |-> FALSE,
                 error |-> reply.data.error, said |-> Said(reply)]
    ELSE [call |-> i, toolName |-> name, success |-> FALSE,
          error |-> IF reply.status = 500 THEN AxiosError ELSE reply.error,
          said |-> Said(reply)]

pushNotFound_skips(results, i, name) == results

\* the else branch of the loop body: the failure is recorded like any other
pushNotFound(results, i, name) ==
  Append(results, [call |-> i, toolName |-> name, success |-> FALSE,
                   error |-> NotFoundError(name), said |-> ""])

loopReady_noAwait(flying) == TRUE

\* await axios.post(...): the loop goes on only when no request is pending
loopReady(flying) == flying = {}

(***************************************************************************)
(* The texts the assistant may answer with, and the states the program     *)
(* starts in.                                                              *)
(***************************************************************************)
Env == [smithery : BOOLEAN, brave : BOOLEAN, ordiscan : BOOLEAN]

Targets == {"brave_web_search", "brave-search", "rugcheck", "nosuch"}

Bodies ==
  {Body(t, TRUE, "object") : t \in Targets}
    \cup {Body("rugcheck", TRUE, "invalid"), Body("rugcheck", FALSE, "object")}

TextsOver(B, n) == UNION {[1..k -> B] : k \in 0..n}

Texts == TextsOver(Bodies, MaxCalls)

Min(a, b) == IF a < b THEN a ELSE b

\* what the network can do while the endpoint is as gatewayUp says
NetNow == {n \in Net : n.connect = gatewayUp /\ (n.request => gatewayUp)}

CountDown(connects) ==
  IF gatewayUp THEN 0 ELSE Min(downConnects + connects, MaxTracked)

\* a gateway nobody talks to during the request
Quiet == [close |-> TRUE, connect |-> gatewayUp, request |-> gatewayUp]

NoContent == [content |-> <<>>]

FullBlock ==
  <<Ln("Title: ", "t1"), Ln("Description: ", "<b>fast</b> &amp; safe"),
    Ln("URL: ", "u1")>>

\* the blocks an answer of the hosted search is made of
BlockKinds ==
  {FullBlock,
   <<Ln("Title: ", "t2"), Ln("Description: ", "d2")>>,
   <<Ln("Description: ", "a &lt; b"), Ln("URL: ", "u3")>>,
   <<Ln("Title: ", ""), Ln("URL: ", "u4")>>,
   <<Ln("Title: ", "t5"), Ln("other", "x"), Ln("URL: ", "")>>,
   <<Ln("Title: ", ""), Ln("URL: ", "u6"), Ln("Title: ", "t6")>>,
   <<>>}

\* the answers of the hosted search drawn while a chat turn runs
ChatAnswers == {[content |-> <<[text |-> <<FullBlock>>]>>]}

\* the answers of the hosted search drawn in SpecServer
ServerAnswers ==
  ChatAnswers
    \cup {NoContent,
          [content |-> <<[type |-> "image"]>>],
          [content |-> <<[text |-> <<>>]>>],
          [content |-> <<[text |-> <<FullBlock, <<Ln("Title: ", "t2")>>>>]>>],
          [content |-> <<[text |-> <<FullBlock, FullBlock>>]>>]}

Texts_(items) == {[content |-> <<[text |-> i]>>] : i \in items}

SearchAnswers ==
  {NoContent, [content |-> <<[type |-> "image"]>>]}
    \cup Texts_(TextsOver(BlockKinds, MaxBlocks))

OrdiscanAnswers ==
  {NoContent, [content |-> <<[type |-> "image"]>>]}
    \cup Texts_({"", "{\"balance\":1}", "Rate limit exceeded", "{\"balance\":"})

SearchNames == {"brave_web_search", "brave_local_search"}

LocalExec ==
  {"brave-search", "brave_web_search", "rugcheck", "trending-tokens",
   "wallet-balance", "crypto-chat"}

IO(net, onet, localOk, content) ==
  [net |-> net, onet |-> onet, localOk |-> localOk, content |-> content]

\* what the outside can do while a call of name is handled; the parts the
\* handler of name never looks at are fixed
CallIO(name, searchAnswers) ==
  UNION {{IO(n, m, l, c) :
            l \in IF name \in LocalExec THEN BOOLEAN ELSE {TRUE},
            c \in IF name \in SearchNames /\ n.request THEN searchAnswers
                  ELSE IF IsOrdiscan(name) /\ m.request THEN OrdiscanAnswers
                  ELSE {NoContent}} :
           n \in IF name \in SearchNames \cup {"brave-search"}
                   THEN NetNow ELSE {Quiet},
           m \in IF IsOrdiscan(name) THEN NetNow ELSE {Quiet}}

\* what the outside can do while the listing is built or the server starts; a
\* gateway whose credentials are not set is never talked to
ListIO ==
  {IO(n, m, TRUE, NoContent) :
     n \in IF env.smithery THEN NetNow ELSE {Quiet},
     m \in IF env.smithery /\ env.ordiscan THEN NetNow ELSE {Quiet}}

\* req.body.params of a search: count is the number of results asked for
\* (0: no count given)
Params(count) == [count |-> count]

Counts == 0..MaxBlocks

Now == Server(smithery, smitheryConnected, ordiscan, ordiscanConnected)

Becomes(sv) ==
  /\ smithery' = sv.smithery
  /\ smitheryConnected' = sv.smitheryConnected
  /\ ordiscan' = sv.ordiscan
  /\ ordiscanConnected' = sv.ordiscanConnected

NoObs == [op |-> "none"]

\* what the terminal shows: the kind of the message and, for the list of
\* results, its lines
Printed(kind, lines) == [kind |-> kind, lines |-> lines]

\* the chat turns run against a server without ORDISCAN_API_KEY (the assistant
\* texts drawn name no Ordiscan tool); SpecServer draws env from all of Env
ChatEnv == {e \in Env : ~e.ordiscan}

Boot ==
  /\ env \in Env
  /\ smithery = NewSmitheryClient
  /\ smitheryConnected = FALSE
  /\ ordiscan = NewSmitheryClient
  /\ ordiscanConnected = FALSE
  /\ gatewayUp \in BOOLEAN
  /\ pc = "boot"
  /\ availableTools = <<>>
  /\ toolCalls = <<>>
  /\ idx = 1
  /\ inflight = {}
  /\ toolResults = <<>>
  /\ hasErrors = FALSE
  /\ summarySent = <<>>
  /\ posts = <<>>
  /\ downConnects = 0
  /\ obs = NoObs
  /\ failedEnsure = 0
  /\ text = <<>>
  /\ parsed = <<>>
  /\ lastMessageId = "null"
  /\ questions = 0
  /\ running = <<>>
  /\ objects = <<>>
  /\ output = Printed("none", <<>>)

Init == Boot /\ env \in ChatEnv

(***************************************************************************)
(* Spec: the server and the CLI.                                           *)
(***************************************************************************)
\* server.js:135-136, await initializeSmithery(); await initializeOrdiscan()
startup(e, sv, io) ==
  LET a == initializeSmithery(e, sv.smitheryConnected, sv.smithery, io.net)
      b == initializeOrdiscan(e, sv.ordiscanConnected, sv.ordiscan, io.onet)
  IN  Server(a.s, a.flag, b.s, b.flag)

ServerBoot ==
  /\ pc = "boot"
  /\ \E io \in ListIO : Becomes(startup(env, Now, io))
  /\ pc' = "main"
  /\ UNCHANGED <<env, gatewayUp, downConnects, availableTools, toolCalls, idx,
                 inflight, toolResults, hasErrors, summarySent, posts>>
  /\ UNCHANGED <<sessionObs, parseVars>>
  /\ UNCHANGED <<uiVars, overlapVars>>

\* main(): fetch the listing once; on an error go on in chat-only mode
\* a prompt that asks twice
promptForInput_twice(q) == q + 2

\* promptForInput(): rl.question registers one callback for the next line
promptForInput(q) == q + 1

CliMain ==
  /\ pc = "main"
  /\ \/ \E io \in ListIO :
          LET l == toolsList(env, Now, io)
          IN  /\ availableTools' = l.tools
              /\ Becomes(l.sv)
              /\ downConnects' = CountDown(l.connects)
     \/ /\ availableTools' = <<>>
        /\ UNCHANGED <<smithery, smitheryConnected, ordiscan, ordiscanConnected,
                       downConnects>>
  /\ pc' = "prompt"
  /\ questions' = promptForInput(questions)
  /\ UNCHANGED <<env, gatewayUp, toolCalls, idx, inflight, toolResults,
                 hasErrors, summarySent, posts>>
  /\ UNCHANGED <<sessionObs, parseVars>>
  /\ UNCHANGED <<lastMessageId, overlapVars, output>>

\* another client of the server (the test scripts) asks for the listing
ExternalList ==
  /\ pc \notin {"boot", "main"}
  /\ \E io \in ListIO :
       LET l == toolsList(env, Now, io)
       IN  /\ Becomes(l.sv)
           /\ downConnects' = CountDown(l.connects)
  /\ UNCHANGED <<env, gatewayUp>>
  /\ UNCHANGED <<cliVars, sessionObs, parseVars>>
  /\ UNCHANGED <<uiVars, overlapVars>>

\* the hosted endpoint goes down or comes back
GatewayFlip ==
  /\ pc \notin {"boot", "main"}
  /\ gatewayUp' = ~gatewayUp
  /\ downConnects' = 0
  /\ UNCHANGED <<env, smithery, smitheryConnected, ordiscan, ordiscanConnected>>
  /\ UNCHANGED <<cliVars, sessionObs, parseVars>>
  /\ UNCHANGED <<uiVars, overlapVars>>

\* promptForInput: a line that is no command, in chat mode
UserInput ==
  /\ pc = "prompt"
  /\ questions > 0
  /\ questions' = questions - 1
  /\ pc' = "chat"
  /\ output' = Printed("none", <<>>)
  /\ obs' = NoObs
  /\ UNCHANGED <<availableTools, toolCalls, idx, inflight, toolResults,
                 hasErrors, summarySent, posts, lastMessageId, overlapVars>>
  /\ UNCHANGED <<serverVars, failedEnsure, parseVars>>

\* what follows /feedback on the line
FeedbackArgs == {"positive", "negative", ""}

\* handleCommand, case 'feedback': [sv, connects, posted, output]; posted says
\* whether a request went to /api/tools/call
feedbackCommand(lastId, arg, e, sv, io) ==
  LET quiet(kind) == [sv |-> sv, connects |-> 0, posted |-> FALSE,
                      output |-> Printed(kind, <<>>)]
      out == toolsCall("feedback", e, sv, io)
  IN  IF lastId = "null" THEN quiet("no previous message")
      ELSE IF arg \notin {"positive", "negative"} THEN quiet("usage")
      ELSE [sv |-> out.sv, connects |-> out.connects, posted |-> TRUE,
            output |-> IF out.reply.status = 200
                         THEN Printed("thanks", <<>>)
                         ELSE Printed("error submitting feedback", <<>>)]

\* promptForInput: the line is /feedback ...; obs keeps the command, and what
\* the terminal showed before it, until the next turn
Feedback ==
  /\ pc = "prompt"
  /\ questions > 0
  /\ questions' = promptForInput(questions - 1)
  /\ \E arg \in FeedbackArgs :
       \E io \in CallIO("feedback", ChatAnswers) :
         LET f == feedbackCommand(lastMessageId, arg, env, Now, io)
         IN  /\ Becomes(f.sv)
             /\ downConnects' = CountDown(f.connects)
             /\ output' = f.output
             /\ obs' = [op |-> "feedback", arg |-> arg, posted |-> f.posted,
                        last |-> output.kind]
  /\ UNCHANGED <<env, gatewayUp, failedEnsure, lastMessageId, overlapVars>>
  /\ UNCHANGED <<cliVars, parseVars>>

\* the failure is printed and the turn goes on with a parsed text all the same
ChatFails_goesOn ==
  /\ pc = "chat"
  /\ \E content \in Texts :
       /\ toolCalls' = parseToolCalls(content, availableTools)
       /\ pc' = IF Len(toolCalls') > 0 THEN "tools" ELSE "done"
  /\ output' = Printed("error", <<>>)
  /\ UNCHANGED <<availableTools, idx, inflight, toolResults,
                 hasErrors, summarySent, posts, lastMessageId, overlapVars,
                 questions>>
  /\ UNCHANGED <<serverVars, sessionObs, parseVars>>

\* handleChatMode: client.chat for the user's message throws; the outer catch
\* prints 'Error:' with the message
ChatFails ==
  /\ pc = "chat"
  /\ pc' = "done"
  /\ output' = Printed("error", <<>>)
  /\ UNCHANGED <<availableTools, toolCalls, idx, inflight, toolResults,
                 hasErrors, summarySent, posts, lastMessageId, overlapVars,
                 questions>>
  /\ UNCHANGED <<serverVars, sessionObs, parseVars>>

\* handleChatMode: the answer arrives and is parsed
ChatReply ==
  /\ pc = "chat"
  /\ \E content \in Texts :
       LET calls == parseToolCalls(content, availableTools)
       IN  /\ toolCalls' = calls
           /\ availableTools' = evalEffects(content, availableTools)
           /\ pc' = IF Len(calls) > 0 THEN "tools" ELSE "done"
  /\ idx' = 1
  /\ output' = Printed("reply", <<>>)
  /\ UNCHANGED <<inflight, toolResults, hasErrors, summarySent, posts,
                 lastMessageId, overlapVars, questions>>
  /\ UNCHANGED <<serverVars, sessionObs, parseVars>>

\* the loop body, tool found: axios.post to /api/tools/call
Dispatch ==
  /\ pc = "tools"
  /\ idx <= Len(toolCalls)
  /\ loopReady(inflight)
  /\ HasTool(availableTools, toolCalls[idx].name)
  /\ inflight' = inflight \cup {idx}
  /\ posts' = Append(posts, [call |-> idx, name |-> toolCalls[idx].name])
  /\ idx' = idx + 1
  /\ UNCHANGED <<pc, availableTools, toolCalls, toolResults, hasErrors,
                 summarySent>>
  /\ UNCHANGED <<serverVars, sessionObs, parseVars>>
  /\ UNCHANGED <<uiVars, overlapVars>>

\* the server handles the request and the loop body records the answer
ToolReply ==
  /\ pc = "tools"
  /\ \E i \in inflight, reached \in BOOLEAN :
       \E io \in IF reached THEN CallIO(toolCalls[i].name, ChatAnswers)
                           ELSE {IO(Quiet, Quiet, TRUE, NoContent)} :
       LET name == toolCalls[i].name
           out  == IF reached
                     THEN toolsCall(name, env, Now, io)
                     ELSE [sv |-> Now, connects |-> 0, locals |-> 0,
                           reply |-> NoResponse]
           r    == resultOf(i, name, out.reply)
       IN  /\ Becomes(out.sv)
           /\ downConnects' = CountDown(out.connects)
           /\ toolResults' = Append(toolResults, r)
           /\ hasErrors' = (hasErrors \/ ~r.success)
           /\ inflight' = inflight \ {i}
  /\ UNCHANGED <<env, gatewayUp, pc, availableTools, toolCalls, idx,
                 summarySent, posts>>
  /\ UNCHANGED <<sessionObs, parseVars>>
  /\ UNCHANGED <<uiVars, overlapVars>>

\* the loop body, tool not in availableTools
NotFound ==
  /\ pc = "tools"
  /\ idx <= Len(toolCalls)
  /\ loopReady(inflight)
  /\ ~HasTool(availableTools, toolCalls[idx].name)
  /\ toolResults' = pushNotFound(toolResults, idx, toolCalls[idx].name)
  /\ hasErrors' = TRUE
  /\ idx' = idx + 1
  /\ UNCHANGED <<pc, availableTools, toolCalls, inflight, summarySent, posts>>
  /\ UNCHANGED <<serverVars, sessionObs, parseVars>>
  /\ UNCHANGED <<uiVars, overlapVars>>

\* after the loop: one client.chat with the follow-up prompt
LoopEnd ==
  /\ pc = "tools"
  /\ idx > Len(toolCalls)
  /\ loopReady(inflight)
  /\ IF Len(toolResults) > 0
       THEN /\ summarySent' = summarySent \o followUps(toolResults, hasErrors)
            /\ pc' = "summary"
       ELSE /\ summarySent' = summarySent
            /\ pc' = "done"
  /\ UNCHANGED <<availableTools, toolCalls, idx, inflight, toolResults,
                 hasErrors, posts>>
  /\ UNCHANGED <<serverVars, sessionObs, parseVars>>
  /\ UNCHANGED <<uiVars, overlapVars>>

\* toolResults.forEach(...) of the fallback: one line per result
resultLines(results) ==
  [k \in 1..Len(results) |->
     [toolName |-> results[k].toolName,
      text |-> IF results[k].success THEN "Success" ELSE results[k].error]]

\* the error of the summary request reaches the outer catch
summaryCatch_rethrows(results) == Printed("error", <<>>)

\* catch (chatError): 'Could not get summary ...', then the list of results
summaryCatch(results) == Printed("fallback", resultLines(results))

\* the summary arrives and is printed, or the catch prints the list of results
SummaryReply ==
  /\ pc = "summary"
  /\ pc' = "done"
  /\ \/ output' = Printed("summary", <<>>)
     \/ output' = summaryCatch(toolResults)
  /\ UNCHANGED <<availableTools, toolCalls, idx, inflight, toolResults,
                 hasErrors, summarySent, posts, lastMessageId, overlapVars,
                 questions>>
  /\ UNCHANGED <<serverVars, sessionObs, parseVars>>

\* handleChatMode has returned: promptForInput() again (of what the turn
\* printed the kind is kept, the lines are dropped)
TurnEnd ==
  /\ pc = "done"
  /\ pc' = "prompt"
  /\ questions' = promptForInput(questions)
  /\ output' = Printed(output.kind, <<>>)
  /\ UNCHANGED <<lastMessageId, overlapVars>>
  /\ toolCalls' = <<>>
  /\ idx' = 1
  /\ inflight' = {}
  /\ toolResults' = <<>>
  /\ hasErrors' = FALSE
  /\ summarySent' = <<>>
  /\ posts' = <<>>
  /\ UNCHANGED availableTools
  /\ UNCHANGED <<serverVars, sessionObs, parseVars>>

Next ==
  \/ ServerBoot \/ CliMain \/ ExternalList \/ GatewayFlip
  \/ UserInput \/ Feedback \/ ChatFails \/ ChatReply
  \/ Dispatch \/ ToolReply \/ NotFound \/ LoopEnd \/ SummaryReply \/ TurnEnd

Spec == Init /\ [][Next]_vars

(***************************************************************************)
(* SpecSession: one SmitheryClient, its methods called in any order while  *)
(* the endpoint goes up and down.  obs records the last call: the method,  *)
(* its argument, the session before it, what the network did and the       *)
(* outcome.                                                                *)
(***************************************************************************)
InitSession ==
  /\ Init
  /\ env = [smithery |-> TRUE, brave |-> TRUE, ordiscan |-> FALSE]

Observe(op, arg, r, n) ==
  [op |-> op, arg |-> arg, pre |-> smithery, failedBefore |-> failedEnsure, net |-> n,
   ret |-> r.ret, threw |-> r.threw, connects |-> r.connects,
   connected |-> r.connected, requests |-> r.requests, error |-> r.error]

\* viaEnsure: the method reaches the network through ensureConnection()
SessionStep(op, arg, r, n, viaEnsure) ==
  /\ failedEnsure < MaxTracked
  /\ smithery' = r.s
  /\ UNCHANGED <<ordiscan, ordiscanConnected>>
  /\ obs' = Observe(op, arg, r, n)
  /\ failedEnsure' =
       IF r.connected > 0 THEN 0
       ELSE IF viaEnsure /\ r.connects > 0 THEN failedEnsure + 1
       ELSE failedEnsure
  /\ downConnects' = CountDown(r.connects)
  /\ UNCHANGED <<env, smitheryConnected, gatewayUp>>
  /\ UNCHANGED <<cliVars, parseVars>>
  /\ UNCHANGED <<uiVars, overlapVars>>

SessInitialize ==
  \E n \in NetNow : SessionStep("initialize", "", initialize(smithery, n), n, FALSE)

SessEnsureConnection ==
  \E n \in NetNow :
    SessionStep("ensureConnection", "", ensureConnection(smithery, n), n, TRUE)

SessListTools ==
  \E n \in NetNow : SessionStep("listTools", "", listTools(smithery, n), n, TRUE)

SessCallTool ==
  \E n \in NetNow, name \in {"brave_web_search", "brave_local_search"} :
    SessionStep("callTool", name, callTool(name, smithery, n), n, TRUE)

SessClose ==
  \E n \in NetNow :
    SessionStep("close", "",
                Outcome(close(smithery, n), FALSE, FALSE, 0, 0, 0), n, FALSE)

\* the hosted endpoint goes down or comes back
SessGatewayFlip ==
  /\ gatewayUp' = ~gatewayUp
  /\ downConnects' = 0
  /\ UNCHANGED <<env, smithery, smitheryConnected, ordiscan, ordiscanConnected>>
  /\ UNCHANGED <<cliVars, sessionObs, parseVars>>
  /\ UNCHANGED <<uiVars, overlapVars>>

NextSession ==
  \/ SessInitialize \/ SessEnsureConnection \/ SessListTools \/ SessCallTool
  \/ SessClose \/ SessGatewayFlip

SpecSession == InitSession /\ [][NextSession]_vars

(***************************************************************************)
(* SpecParse: parseToolCalls applied to a drawn text, with availableTools  *)
(* any listing the server can answer (or none: chat-only mode).  obs keeps *)
(* the listing as it was before the call.                                  *)
(***************************************************************************)
Sessions ==
  [client : {"null", "obj"}, isConnected : BOOLEAN,
   reconnectAttempts : 0..MaxReconnectAttempts]

Listings ==
  {toolsList(e, Server(s, f, NewSmitheryClient, FALSE),
             IO(n, n, TRUE, NoContent)).tools :
     e \in Env, f \in BOOLEAN, s \in Sessions, n \in Net}
    \cup {<<>>}

ParseBodies ==
  {Body(t, c, a) : t \in Targets \cup {"trending-tokens", "brave_local_search"},
                   c \in BOOLEAN, a \in {"object", "invalid"}}
    \cup {Body("rugcheck", TRUE, a) : a \in {"arithmetic", "assignment"}}

InitParse ==
  /\ Init
  /\ env = [smithery |-> TRUE, brave |-> TRUE, ordiscan |-> FALSE]
  /\ gatewayUp = TRUE

DrawText ==
  /\ pc = "boot"
  /\ text' \in TextsOver(ParseBodies, MaxCalls - 1)
  /\ availableTools' \in Listings
  /\ pc' = "parse"
  /\ UNCHANGED <<parsed, toolCalls, idx, inflight, toolResults, hasErrors,
                 summarySent, posts>>
  /\ UNCHANGED <<serverVars, sessionObs>>
  /\ UNCHANGED <<uiVars, overlapVars>>

Parse ==
  /\ pc = "parse"
  /\ parsed' = parseToolCalls(text, availableTools)
  /\ availableTools' = evalEffects(text, availableTools)
  /\ obs' = [op |-> "parse", tools |-> availableTools]
  /\ pc' = "parsed"
  /\ UNCHANGED <<text, toolCalls, idx, inflight, toolResults, hasErrors,
                 summarySent, posts, failedEnsure>>
  /\ UNCHANGED serverVars
  /\ UNCHANGED <<uiVars, overlapVars>>

NextParse == DrawText \/ Parse

SpecParse == InitParse /\ [][NextParse]_vars

(***************************************************************************)
(* SpecServer: the server alone, its two endpoints called by any client    *)
(* with any tool name while the gateway goes up and down.  obs records the *)
(* last request: the endpoint, the tool name, its params, the server's     *)
(* state before it, what the outside did and what the handler came to      *)
(* (out.connects counts the connects of the request to the Smithery        *)
(* gateway; obs.failed is downConnects before the request, which only      *)
(* SpecRecover keeps).                                                     *)
(***************************************************************************)
CallNames ==
  {"brave_web_search", "brave-search", "brave_local_search", "rugcheck",
   "trending-tokens", "wallet-balance", "crypto-chat", "ordiscan_address_brc20",
   "ordiscan_utxo_rare_sats", "ordiscan_main", "nosuch"}

InitServer == Boot

Served(op, name, params, io, out) ==
  /\ Becomes(out.sv)
  /\ obs' = [op |-> op, name |-> name, params |-> params, sv |-> Now,
             io |-> io, out |-> out, failed |-> downConnects]
  /\ UNCHANGED <<env, gatewayUp, failedEnsure>>
  /\ UNCHANGED <<cliVars, parseVars>>
  /\ UNCHANGED <<uiVars, overlapVars>>

SrvBoot ==
  /\ pc = "boot"
  /\ \E io \in ListIO : Becomes(startup(env, Now, io))
  /\ pc' = "serving"
  /\ UNCHANGED <<env, gatewayUp, downConnects, availableTools, toolCalls, idx,
                 inflight, toolResults, hasErrors, summarySent, posts>>
  /\ UNCHANGED <<sessionObs, parseVars>>
  /\ UNCHANGED <<uiVars, overlapVars>>

SrvList ==
  /\ pc = "serving"
  /\ \E io \in ListIO : Served("list", "", Params(0), io, toolsList(env, Now, io))
  /\ UNCHANGED downConnects

SrvCall ==
  /\ pc = "serving"
  /\ \E name \in CallNames :
       \E count \in IF name = "brave_web_search" THEN Counts ELSE {0} :
         \E io \in CallIO(name, ServerAnswers) :
           Served("call", name, Params(count), io, toolsCall(name, env, Now, io))
  /\ UNCHANGED downConnects

\* a request whose body has no params (what the Brave API, the AgentHustle
\* client and the gateway would answer is not asked for or not looked at)
SrvCallNoParams ==
  /\ pc = "serving"
  /\ \E name \in CallNames :
       \E io \in {c \in CallIO(name, {NoContent}) :
                    c.localOk /\ c.content = NoContent} :
         Served("call-noparams", name, "undefined", io,
                toolsCallNoParams(name, env, Now, io))
  /\ UNCHANGED downConnects

SrvGatewayFlip ==
  /\ pc = "serving"
  /\ gatewayUp' = ~gatewayUp
  /\ obs' = NoObs
  /\ UNCHANGED <<env, smithery, smitheryConnected, ordiscan, ordiscanConnected,
                 downConnects, failedEnsure>>
  /\ UNCHANGED <<cliVars, parseVars>>
  /\ UNCHANGED <<uiVars, overlapVars>>

NextServer ==
  SrvBoot \/ SrvList \/ SrvCall \/ SrvCallNoParams \/ SrvGatewayFlip

SpecServer == InitServer /\ [][NextServer]_vars

(***************************************************************************)
(* SpecRecover: a server with Smithery credentials under brave_web_search  *)
(* calls and listings while the gateway goes down and comes back.          *)
(* downConnects counts the connects of the calls that failed since the     *)
(* last connect that succeeded.                                            *)
(***************************************************************************)
InitRecover == Boot /\ env.smithery

\* a connect succeeds exactly when the gateway is up
FailedConnects(connects) ==
  IF connects = 0 THEN downConnects
  ELSE IF gatewayUp THEN 0
  ELSE Min(downConnects + connects, MaxTracked)

RecCall ==
  /\ pc = "serving"
  /\ \E io \in CallIO("brave_web_search", ChatAnswers) :
       LET out == toolsCall("brave_web_search", env, Now, io)
       IN  /\ Served("call", "brave_web_search", Params(0), io, out)
           /\ downConnects' = FailedConnects(out.connects)

NextRecover == SrvBoot \/ SrvList \/ RecCall \/ SrvGatewayFlip

SpecRecover == InitRecover /\ [][NextRecover]_vars

(***************************************************************************)
(* SpecOverlap: two brave_web_search requests handled by the server at the *)
(* same time.  A handler runs from one await to the next in one step, and  *)
(* the steps of the two handlers interleave in any order.  The session's   *)
(* client field holds the name of a Client object: "c0" is the one made at *)
(* startup, Made(p, k) the k-th one request p makes; objects says what     *)
(* state each of them is in.  running[p] is [pc, made, cur, ret, via,      *)
(* closed]: the await the handler stands at, how many Client objects it    *)
(* has made, the object it connects or sends its request on, what          *)
(* initialize() or ensureConnection() returns to it, who called            *)
(* initialize() ("server": initializeSmithery, "ensure":                   *)
(* ensureConnection), and whether client.close() went through.             *)
(***************************************************************************)
Requests == {1, 2}

ObjectIds == {"c0", "c11", "c12", "c21", "c22"}

Made(p, k) ==
  CASE p = 1 /\ k = 1 -> "c11"
    [] p = 1 /\ k = 2 -> "c12"
    [] p = 2 /\ k = 1 -> "c21"
    [] OTHER          -> "c22"

InitOverlap ==
  /\ Boot
  /\ env = [smithery |-> TRUE, brave |-> TRUE, ordiscan |-> FALSE]
  /\ gatewayUp = TRUE

\* what a step of request p leaves: the session, the flag, the objects and
\* the request itself
OverlapStep(p, s, flag, objs, r) ==
  /\ smithery' = s
  /\ smitheryConnected' = flag
  /\ objects' = objs
  /\ running' = [running EXCEPT ![p] = r]
  /\ UNCHANGED <<env, ordiscan, ordiscanConnected, gatewayUp, downConnects>>
  /\ UNCHANGED <<cliVars, sessionObs, parseVars, uiVars>>

\* startup: initializeSmithery() makes c0 and connects it, or fails to
OvBoot ==
  /\ pc = "boot"
  /\ \E ok \in BOOLEAN :
       /\ smithery' = [client |-> "c0", isConnected |-> ok,
                       reconnectAttempts |-> 0]
       /\ smitheryConnected' = ok
       /\ objects' = [id \in ObjectIds |->
                        IF id # "c0" THEN "unused"
                        ELSE IF ok THEN "connected" ELSE "failed"]
  /\ running' = [p \in Requests |->
                   [pc |-> "start", made |-> 0, cur |-> "null", ret |-> FALSE,
                    via |-> "server", closed |-> FALSE]]
  /\ pc' = "serving"
  /\ UNCHANGED <<env, ordiscan, ordiscanConnected, gatewayUp, downConnects>>
  /\ UNCHANGED <<availableTools, toolCalls, idx, inflight, toolResults,
                 hasErrors, summarySent, posts>>
  /\ UNCHANGED <<sessionObs, parseVars, uiVars>>

\* initialize() from `this.client = new Client(...)` to `await connect`
connectNew(p, s) ==
  LET r  == running[p]
      id == Made(p, r.made + 1)
  IN  OverlapStep(p, [s EXCEPT !.client = id], smitheryConnected,
                  [objects EXCEPT ![id] = "connecting"],
                  [r EXCEPT !.pc = "connecting", !.made = @ + 1, !.cur = id])

\* initialize() up to its first await: `await this.client.close()` inside
\* close() when the session holds a client, `await connect` otherwise
beginInitialize(p, via, s) ==
  LET r == [running[p] EXCEPT !.via = via]
  IN  IF s.client # "null"
        THEN \E ok \in BOOLEAN :
               OverlapStep(p, s, smitheryConnected,
                           IF ok THEN [objects EXCEPT ![s.client] = "closed"]
                                 ELSE objects,
                           [r EXCEPT !.pc = "closing", !.closed = ok])
        ELSE /\ running[p].via = via
             /\ connectNew(p, s)

\* ensureConnection() up to its return or its first await
ensureStep(p) ==
  LET r == running[p]
  IN  IF smithery.isConnected /\ smithery.client # "null"
        THEN OverlapStep(p, smithery, smitheryConnected, objects,
                         [r EXCEPT !.pc = "ensured", !.ret = TRUE])
        ELSE IF mayReconnect(smithery)
          THEN beginInitialize(p, "ensure",
                 [smithery EXCEPT !.reconnectAttempts = @ + 1])
          ELSE OverlapStep(p, smithery, smitheryConnected, objects,
                           [r EXCEPT !.pc = "ensured", !.ret = FALSE])

\* the handler starts: smitheryConnected || await initializeSmithery()
OvStart ==
  /\ pc = "serving"
  /\ \E p \in Requests :
       /\ running[p].pc = "start"
       /\ IF smitheryConnected
            THEN ensureStep(p)
            ELSE beginInitialize(p, "server", smithery)

\* close() after its await: the fields are cleared when client.close() went
\* through, left alone when it threw
OvClosed ==
  /\ pc = "serving"
  /\ \E p \in Requests :
       /\ running[p].pc = "closing"
       /\ OverlapStep(p,
            IF running[p].closed
              THEN [smithery EXCEPT !.isConnected = FALSE, !.client = "null"]
              ELSE smithery,
            smitheryConnected, objects, [running[p] EXCEPT !.pc = "closed"])

\* initialize() after `await this.close()`
OvReopen ==
  /\ pc = "serving"
  /\ \E p \in Requests :
       /\ running[p].pc = "closed"
       /\ connectNew(p, smithery)

\* `await this.client.connect(...)` settles; a client that was closed
\* meanwhile does not connect
OvConnected ==
  /\ pc = "serving"
  /\ \E p \in Requests :
       /\ running[p].pc = "connecting"
       /\ \E ok \in IF objects[running[p].cur] = "connecting"
                      THEN BOOLEAN ELSE {FALSE} :
            OverlapStep(p,
              IF ok THEN [smithery EXCEPT !.isConnected = TRUE,
                                          !.reconnectAttempts = 0]
                    ELSE [smithery EXCEPT !.isConnected = FALSE],
              smitheryConnected,
              IF objects[running[p].cur] = "connecting"
                THEN [objects EXCEPT ![running[p].cur] =
                                        IF ok THEN "connected" ELSE "failed"]
                ELSE objects,
              [running[p] EXCEPT !.pc = "initialized", !.ret = ok])

\* initialize() has returned: initializeSmithery sets the flag, and
\* ensureConnection hands the value on
OvInitialized ==
  /\ pc = "serving"
  /\ \E p \in Requests :
       /\ running[p].pc = "initialized"
       /\ IF running[p].via = "server"
            THEN OverlapStep(p, smithery, running[p].ret, objects,
                   [running[p] EXCEPT
                      !.pc = IF running[p].ret THEN "ensure" ELSE "done"])
            ELSE OverlapStep(p, smithery, smitheryConnected, objects,
                   [running[p] EXCEPT !.pc = "ensured"])

\* initializeSmithery() has returned true: callTool, ensureConnection
OvEnsure ==
  /\ pc = "serving"
  /\ \E p \in Requests :
       /\ running[p].pc = "ensure"
       /\ ensureStep(p)

\* callTool after `await this.ensureConnection()`: throw, or send the request
\* on the client the session holds now
OvEnsured ==
  /\ pc = "serving"
  /\ \E p \in Requests :
       /\ running[p].pc = "ensured"
       /\ IF ~running[p].ret
            THEN OverlapStep(p, smithery, smitheryConnected, objects,
                             [running[p] EXCEPT !.pc = "threw"])
            ELSE IF smithery.client = "null"
              THEN OverlapStep(p, [smithery EXCEPT !.isConnected = FALSE],
                               smitheryConnected, objects,
                               [running[p] EXCEPT !.pc = "threw"])
              ELSE OverlapStep(p, smithery, smitheryConnected, objects,
                               [running[p] EXCEPT !.pc = "requesting",
                                                  !.cur = smithery.client])

\* `await this.client.callTool(...)` settles; only a connected client answers
OvSettled ==
  /\ pc = "serving"
  /\ \E p \in Requests :
       /\ running[p].pc = "requesting"
       /\ \E ok \in IF objects[running[p].cur] = "connected"
                      THEN BOOLEAN ELSE {FALSE} :
            IF ok
              THEN OverlapStep(p, smithery, smitheryConnected, objects,
                               [running[p] EXCEPT !.pc = "done"])
              ELSE OverlapStep(p, [smithery EXCEPT !.isConnected = FALSE],
                               smitheryConnected, objects,
                               [running[p] EXCEPT !.pc = "threw"])

\* the catch of the hosted branch: smitheryConnected = false
OvCaught ==
  /\ pc = "serving"
  /\ \E p \in Requests :
       /\ running[p].pc = "threw"
       /\ OverlapStep(p, smithery, FALSE, objects,
                      [running[p] EXCEPT !.pc = "done"])

NextOverlap ==
  \/ OvBoot \/ OvStart \/ OvClosed \/ OvReopen \/ OvConnected
  \/ OvInitialized \/ OvEnsure \/ OvEnsured \/ OvSettled \/ OvCaught

SpecOverlap == InitOverlap /\ [][NextOverlap]_vars

(***************************************************************************)
(* SpecNormalize: the normalizers of the hosted answers, searchResult for  *)
(* the Brave Search server and ordiscanResult for Ordiscan, applied to a   *)
(* drawn answer.                                                           *)
(***************************************************************************)
InitNormalize ==
  /\ Boot
  /\ env = [smithery |-> TRUE, brave |-> TRUE, ordiscan |-> TRUE]
  /\ gatewayUp = TRUE

DrawAnswer ==
  /\ pc = "boot"
  /\ \/ text' \in SearchAnswers /\ pc' = "search"
     \/ text' \in OrdiscanAnswers /\ pc' = "lookup"
  /\ UNCHANGED <<parsed, availableTools, toolCalls, idx, inflight, toolResults,
                 hasErrors, summarySent, posts>>
  /\ UNCHANGED <<serverVars, sessionObs>>
  /\ UNCHANGED <<uiVars, overlapVars>>

NormalizeSearch ==
  /\ pc = "search"
  /\ parsed' = searchResult(text)
  /\ pc' = "searched"
  /\ UNCHANGED <<text, availableTools, toolCalls, idx, inflight, toolResults,
                 hasErrors, summarySent, posts>>
  /\ UNCHANGED <<serverVars, sessionObs>>
  /\ UNCHANGED <<uiVars, overlapVars>>

NormalizeLookup ==
  /\ pc = "lookup"
  /\ \E i \in 1..Len(OrdiscanNames) :
       /\ parsed' = ordiscanResult(OrdiscanNames[i], text)
       /\ obs' = [op |-> "lookup", name |-> OrdiscanNames[i]]
  /\ pc' = "looked"
  /\ UNCHANGED <<text, availableTools, toolCalls, idx, inflight, toolResults,
                 hasErrors, summarySent, posts>>
  /\ UNCHANGED <<serverVars, failedEnsure>>
  /\ UNCHANGED <<uiVars, overlapVars>>

NextNormalize == DrawAnswer \/ NormalizeSearch \/ NormalizeLookup

SpecNormalize == InitNormalize /\ [][NextNormalize]_vars

(***************************************************************************)
(* Properties.                                                             *)
(***************************************************************************)
BatchOver == pc \in {"summary", "done"} /\ Len(toolCalls) > 0

Prompt == summarySent[1]

\* the calls a prompt reports, in the order of its text
Reported(p) == [i \in 1..Len(p.successful \o p.failed) |->
                  (p.successful \o p.failed)[i].call]

FailedCalls == {i \in 1..Len(toolResults) : ~toolResults[i].success}

Increasing(q) == \A i, j \in 1..Len(q) : i < j => q[i] < q[j]

CallsOf(lines) == [i \in 1..Len(lines) |-> lines[i].call]

\* C1: in a chat turn at most one summarization request is sent to the AI: none
\* when no tool call was parsed, exactly one when one or more were parsed.
C1_OneSummaryPerTurn ==
  /\ Len(summarySent) <= 1
  /\ pc = "done" => Len(summarySent) = (IF Len(toolCalls) > 0 THEN 1 ELSE 0)
  /\ pc = "summary" => Len(summarySent) = 1

C1_Witness ==
  pc = "done" /\ Len(toolCalls) = MaxCalls /\ Len(summarySent) = 1

\* C2: for N parsed calls of which k failed, the one follow-up prompt reports
\* N-k successes and k failures, each call once, and has the labeled
\* SUCCESSFUL/FAILED sections exactly when k > 0.
C2_PromptCounts ==
  BatchOver =>
    /\ Len(summarySent) = 1
    /\ Prompt.executed = Len(toolCalls)
    /\ Len(Prompt.failed) = Cardinality(FailedCalls)
    /\ Len(Prompt.successful) = Len(toolCalls) - Cardinality(FailedCalls)
    /\ \A c \in 1..Len(toolCalls) :
         Cardinality({i \in 1..Len(Reported(Prompt)) : Reported(Prompt)[i] = c}) = 1
    /\ \A i \in 1..Len(Prompt.failed) : Prompt.failed[i].call \in FailedCalls
    /\ \A i \in 1..Len(Prompt.successful) :
         Prompt.successful[i].call \notin FailedCalls
    /\ Prompt.labeled <=> Cardinality(FailedCalls) > 0

C2_Witness ==
  /\ pc = "summary" /\ Len(toolCalls) = 3
  /\ toolResults[1].success /\ ~toolResults[2].success /\ toolResults[3].success
  /\ Len(Prompt.successful) = 2 /\ Len(Prompt.failed) = 1

\* C3 as claimed: the follow-up prompt reports the results in the order in
\* which the calls were parsed, in mixed batches too.
C3_ParsedOrder ==
  BatchOver => Reported(Prompt) = [i \in 1..Len(toolCalls) |-> i]

\* C3 as amended: the prompt reports the results in parsed order within each
\* section: all of them in parsed order when no call failed, otherwise the
\* successes in parsed order followed by the failures in parsed order.
C3_OrderWithinSections ==
  BatchOver =>
    /\ Increasing(CallsOf(Prompt.successful))
    /\ Increasing(CallsOf(Prompt.failed))
    /\ ~Prompt.labeled => Reported(Prompt) = [i \in 1..Len(toolCalls) |-> i]
    /\ Prompt.labeled =>
         /\ \A i \in 1..Len(Prompt.successful) :
              toolResults[Prompt.successful[i].call].success
         /\ \A i \in 1..Len(Prompt.failed) :
              ~toolResults[Prompt.failed[i].call].success

C3_Witness ==
  /\ pc = "summary" /\ Len(toolCalls) = 3
  /\ ~toolResults[1].success /\ toolResults[2].success /\ toolResults[3].success
  /\ Reported(Prompt) = <<2, 3, 1>>

\* C4: no tool failure aborts the batch: one ToolResult per parsed call, calls
\* after a failed or not-found call are still processed, and a call whose name
\* is not in the tool list is recorded as failed without any request being sent.
C4_NoAbort ==
  /\ BatchOver => Len(toolResults) = Len(toolCalls)
  /\ (pc = "tools" /\ inflight = {}) => Len(toolResults) = idx - 1
  /\ \A k \in 1..Len(toolResults) :
       LET r == toolResults[k]
           sent == {j \in 1..Len(posts) : posts[j].call = r.call}
       IN  /\ r.call \in 1..Len(toolCalls)
           /\ r.toolName = toolCalls[r.call].name
           /\ \A k2 \in 1..Len(toolResults) :
                toolResults[k2].call = r.call => k2 = k
           /\ IF HasTool(availableTools, r.toolName)
                THEN Cardinality(sent) = 1
                ELSE sent = {} /\ ~r.success /\ r.error = NotFoundError(r.toolName)

C4_Witness ==
  /\ pc = "done" /\ Len(toolCalls) = 3 /\ Len(toolResults) = 3
  /\ ~HasTool(availableTools, toolCalls[1].name)
  /\ ~toolResults[2].success /\ HasTool(availableTools, toolCalls[2].name)
  /\ toolResults[3].success
  /\ Len(posts) = 2

\* C5: the calls of a batch run one after the other in parsed order: at most
\* one request is in flight, it is sent only when the results of all earlier
\* calls are recorded, and the summary is asked for only after the last one.
C5_Sequential ==
  /\ Cardinality(inflight) <= 1
  /\ \A i \in inflight : i = idx - 1 /\ Len(toolResults) = i - 1
  /\ \A k \in 1..Len(toolResults) : toolResults[k].call = k
  /\ Increasing([j \in 1..Len(posts) |-> posts[j].call])
  /\ summarySent # <<>> =>
       inflight = {} /\ Len(toolResults) = Len(toolCalls)

C5_Witness ==
  /\ pc = "tools" /\ inflight = {2} /\ Len(toolResults) = 1
  /\ Len(posts) = 2 /\ Len(toolCalls) = 3

WellFormed(body) == body.call /\ body.args = "object"

BraveNames == {"brave_web_search", "brave-search"}

\* C6 as claimed: when the listing holds the hosted brave_web_search, a marker
\* naming brave_web_search or brave-search resolves to the hosted tool.
C6_BothNamesResolveHosted ==
  (pc = "parsed" /\ HasTool(availableTools, "brave_web_search")) =>
    /\ Cardinality({j \in 1..Len(parsed) : parsed[j].marker \in BraveNames})
         = Cardinality({i \in 1..Len(text) :
                          WellFormed(text[i]) /\ text[i].target \in BraveNames})
    /\ \A j \in 1..Len(parsed) :
         parsed[j].marker \in BraveNames =>
           /\ parsed[j].name = "brave_web_search"
           /\ FindTool(availableTools, parsed[j].name).source = "smithery"

\* C7 as claimed: once the hosted backend, connected when the listing was
\* fetched, is marked disconnected, a call for brave-search resolves to the
\* local descriptor: it is found, and it is the local brave-search.
C7_LocalAfterDisconnect ==
  (/\ pc = "tools"
   /\ HasTool(availableTools, "brave_web_search")
   /\ ~smitheryConnected
   /\ env.brave) =>
    \A i \in 1..Len(toolCalls) :
      toolCalls[i].marker = "brave-search" =>
        /\ toolCalls[i].name = "brave-search"
        /\ HasTool(availableTools, "brave-search")
        /\ FindTool(availableTools, "brave-search").source = "local"

ThroughEnsure == {"ensureConnection", "listTools", "callTool"}

\* C8: after maxReconnectAttempts consecutive failed connect attempts made
\* through ensureConnection, a further ensureConnection returns false without
\* putting a connect on the network (listTools and callTool, which go through
\* it, throw), until a connect succeeds.
C8_BoundedReconnect ==
  (obs.op \in ThroughEnsure /\ obs.failedBefore >= MaxReconnectAttempts) =>
    /\ obs.connects = 0
    /\ obs.requests = 0
    /\ ~obs.ret
    /\ obs.threw = (obs.op # "ensureConnection")
    /\ smithery = obs.pre

C8_Witness ==
  /\ obs.op = "ensureConnection"
  /\ obs.failedBefore = MaxReconnectAttempts
  /\ obs.connects = 0 /\ ~obs.ret

\* C9 as claimed: while the hosted endpoint stays unreachable, the connect
\* attempts made against it after startup never exceed maxReconnectAttempts.
C9_BoundedAttemptsWhileDown ==
  downConnects <= MaxReconnectAttempts

\* C10: initialize() on success leaves the session connected with
\* reconnectAttempts 0; on failure it leaves it disconnected with
\* reconnectAttempts unchanged and returns false; it never throws.
C10_ConnectOutcome ==
  obs.op = "initialize" =>
    /\ ~obs.threw
    /\ obs.ret =>
         /\ smithery.isConnected /\ smithery.client # "null"
         /\ smithery.reconnectAttempts = 0
    /\ ~obs.ret =>
         /\ ~smithery.isConnected
         /\ smithery.reconnectAttempts = obs.pre.reconnectAttempts

C10_Witness ==
  /\ obs.op = "initialize" /\ ~obs.ret
  /\ obs.pre.reconnectAttempts = 2 /\ obs.pre.isConnected = FALSE
  /\ smithery.reconnectAttempts = 2

\* a request of a connected session that the transport fails
RequestFailed ==
  /\ obs.op \in {"listTools", "callTool"}
  /\ isAvailable(obs.pre)
  /\ ~obs.net.request

C12_NoRetry ==
  obs.op = "callTool" =>
    /\ obs.requests <= 1
    /\ (obs.requests = 1 /\ ~obs.net.request) =>
         /\ obs.threw
         /\ obs.connects = (IF isAvailable(obs.pre) THEN 0 ELSE 1)

C12_Witness ==
  /\ obs.op = "callTool" /\ obs.arg = "brave_web_search"
  /\ isAvailable(obs.pre) /\ ~obs.net.request
  /\ obs.requests = 1 /\ obs.threw /\ obs.connects = 0

Called(name) == obs.op = "call" /\ obs.name = name

Reply == obs.out.reply

\* the hosted step of a call to a backend marked flag fails: the reconnect of
\* a disconnected backend, or the request
StepFails(flag, net) ==
  IF flag THEN ~net.request ELSE ~net.connect \/ ~net.request

HostedSearchFails(name) ==
  /\ Called(name)
  /\ env.smithery
  /\ StepFails(obs.sv.smitheryConnected, obs.io.net)

\* C13 as claimed: when the hosted step of a brave_web_search call fails at
\* any point and BRAVE_API_KEY is configured, the request is run on the local
\* path and a success comes back marked source 'local-fallback'; without the
\* key, or when the local path fails too, the response is a failure.
C13_FallbackMarkedDegraded ==
  HostedSearchFails("brave_web_search") =>
    IF env.brave /\ obs.io.localOk
      THEN /\ Reply.status = 200 /\ Reply.data.success
           /\ obs.out.locals = 1
           /\ Reply.data.result.source = "local-fallback"
      ELSE Reply.status = 500 /\ ~Reply.data.success

HostedLookupFails(name) ==
  /\ Called(name)
  /\ IsOrdiscan(name)
  /\ env.smithery /\ env.ordiscan
  /\ StepFails(obs.sv.ordiscanConnected, obs.io.onet)

\* C14: when a hosted call fails for a tool without local equivalent
\* (brave_local_search, the ordiscan_* tools), the response is a failure for
\* that call, the backend of the tool is marked disconnected, the other
\* backend is left as it was, and no local path is tried.
C14_NoLocalEquivalentFails ==
  /\ HostedSearchFails("brave_local_search") =>
       /\ Reply.status = 500 /\ ~Reply.data.success
       /\ Reply.data.tool = obs.name
       /\ obs.out.locals = 0
       /\ ~smitheryConnected /\ ~isAvailable(smithery)
       /\ ordiscan = obs.sv.ordiscan
       /\ ordiscanConnected = obs.sv.ordiscanConnected
  /\ \A name \in CallNames :
       HostedLookupFails(name) =>
         /\ Reply.status = 500 /\ ~Reply.data.success
         /\ Reply.data.tool = obs.name
         /\ obs.out.locals = 0
         /\ ~ordiscanConnected /\ ~isAvailable(ordiscan)
         /\ smithery = obs.sv.smithery
         /\ smitheryConnected = obs.sv.smitheryConnected

C14_Witness ==
  /\ HostedLookupFails("ordiscan_address_brc20")
  /\ obs.sv.ordiscanConnected /\ obs.sv.smitheryConnected
  /\ env.brave
  /\ Reply.status = 500 /\ ~ordiscanConnected /\ smitheryConnected

\* the local execution of the last call raised an exception
LocalRaises ==
  /\ obs.op = "call"
  /\ ~obs.io.localOk
  /\ \/ obs.name \in {"rugcheck", "trending-tokens", "wallet-balance",
                        "crypto-chat"}
     \/ obs.name = "brave-search" /\ env.brave

ExceptionOf(name) ==
  IF name = "brave-search" THEN BraveError ELSE HeadlessChatError

\* C15 as claimed: an exception raised while a local tool runs is recorded by
\* the orchestrator as a failed ToolResult that carries the exception message,
\* never as a success.
C15_LocalExceptionRecorded ==
  LocalRaises =>
    LET r == resultOf(1, obs.name, Reply)
    IN  /\ ~r.success
        /\ r.error \in {ExceptionOf(obs.name),
                         "Local Brave Search failed: " \o ExceptionOf(obs.name)}

\* C16: every ToolResult recorded has exactly one payload, the one its success
\* flag names: a result and no error when success is true, a non-empty error
\* message and no result when it is false.
C16_OnePayload ==
  \A k \in 1..Len(toolResults) :
    LET r == toolResults[k]
    IN  IF r.success
          THEN /\ "result" \in DOMAIN r /\ "error" \notin DOMAIN r
               /\ "source" \in DOMAIN r.result
          ELSE /\ "error" \in DOMAIN r /\ "result" \notin DOMAIN r
               /\ r.error # ""

C16_Witness ==
  /\ pc = "done" /\ Len(toolResults) = 3
  /\ toolResults[1].success
  /\ ~toolResults[2].success /\ toolResults[2].error = NoResponse.error
  /\ ~toolResults[3].success /\ toolResults[3].error = AxiosError

\* C17 as claimed: for a call that fails at the tool endpoint, the error text
\* recorded in the ToolResult and reported in the follow-up prompt is the
\* message the server produced, never a generic one.
C17_SpecificError ==
  /\ \A k \in 1..Len(toolResults) :
       toolResults[k].said # "" => toolResults[k].error = toolResults[k].said
  /\ BatchOver =>
       \A j \in 1..Len(Prompt.failed) :
         toolResults[Prompt.failed[j].call].said # "" =>
           Prompt.failed[j].body = toolResults[Prompt.failed[j].call].said

\* the blocks of a drawn answer, as the text shows them
BlocksOf(res) ==
  IF Len(res.content) > 0 /\ "text" \in DOMAIN res.content[1]
    THEN res.content[1].text ELSE <<>>

\* what the last line of block that starts with prefix says, "" without one
LastValue(block, prefix) ==
  LET at == {i \in 1..Len(block) : block[i].prefix = prefix}
  IN  IF at = {} THEN ""
      ELSE block[CHOOSE i \in at : \A j \in at : j <= i].value

HasTitleAndUrl(block) ==
  LastValue(block, "Title: ") # "" /\ LastValue(block, "URL: ") # ""

\* C18: the normalizer of the hosted search includes a block exactly when it
\* has a non-empty title and a non-empty url: the results are those blocks, in
\* their order, a block without URL: or without Title: is left out, and total
\* is the number of blocks included.
C18_BlocksIncluded ==
  pc = "searched" =>
    LET included == SelectSeq(BlocksOf(text), HasTitleAndUrl)
    IN  /\ Len(parsed.results) = Len(included)
        /\ \A i \in 1..Len(included) :
             /\ parsed.results[i].title = LastValue(included[i], "Title: ")
             /\ parsed.results[i].url = LastValue(included[i], "URL: ")
        /\ parsed.total = Len(included)

C18_Witness ==
  /\ pc = "searched"
  /\ Len(BlocksOf(text)) = 2
  /\ BlocksOf(text)[1] = FullBlock
  /\ LastValue(BlocksOf(text)[2], "URL: ") = ""
  /\ LastValue(BlocksOf(text)[2], "Title: ") # ""
  /\ parsed.total = 1 /\ Len(parsed.results) = 1

\* the answer has no content, or its first item has no text
EmptyAnswer(res) ==
  \/ Len(res.content) = 0
  \/ "text" \notin DOMAIN res.content[1]

\* the hosted step of the last call went through
HostedSearchServed ==
  /\ obs.op = "call" /\ obs.name \in SearchNames
  /\ env.smithery
  /\ ~StepFails(obs.sv.smitheryConnected, obs.io.net)

HostedLookupServed ==
  /\ obs.op = "call" /\ IsOrdiscan(obs.name)
  /\ env.smithery /\ env.ordiscan
  /\ ~StepFails(obs.sv.ordiscanConnected, obs.io.onet)

\* C19: a hosted answer with an empty content list, or whose first item has no
\* text, is answered as a success with the zero value of the family:
\* results = [] and total = 0 for the searches, data = {} for the lookups.
C19_EmptyAnswerIsZero ==
  /\ (HostedSearchServed /\ EmptyAnswer(obs.io.content)) =>
       /\ Reply.status = 200 /\ Reply.data.success
       /\ Reply.data.result.source = "smithery"
       /\ Reply.data.result.results = <<>>
       /\ Reply.data.result.total = 0
  /\ (HostedLookupServed /\ EmptyAnswer(obs.io.content)) =>
       /\ Reply.status = 200 /\ Reply.data.success
       /\ Reply.data.result.source = "ordiscan"
       /\ Reply.data.result.data = EmptyObject

C19_Witness ==
  /\ HostedSearchServed /\ obs.name = "brave_web_search"
  /\ obs.io.content = [content |-> <<[type |-> "image"]>>]
  /\ Reply.status = 200 /\ Reply.data.result.total = 0

\* the first item of the answer carries a text that JSON.parse rejects
MalformedAnswer(res) ==
  /\ Len(res.content) > 0
  /\ "text" \in DOMAIN res.content[1]
  /\ res.content[1].text \notin ValidJson \cup {""}

\* C20: a hosted lookup answer whose text is not valid JSON is wrapped as
\* { data: <the text> }; the call succeeds and the Ordiscan backend stays
\* connected.
C20_MalformedPayloadWrapped ==
  (HostedLookupServed /\ MalformedAnswer(obs.io.content)) =>
    /\ Reply.status = 200 /\ Reply.data.success
    /\ Reply.data.tool = obs.name
    /\ Reply.data.result.data = [data |-> obs.io.content.content[1].text]
    /\ ordiscanConnected /\ isAvailable(ordiscan)

C20_Witness ==
  /\ HostedLookupServed /\ obs.name = "ordiscan_address_brc20"
  /\ obs.io.content = [content |-> <<[text |-> "Rate limit exceeded"]>>]
  /\ Reply.data.success /\ ordiscanConnected

\* C21 as claimed: a brave_web_search call with count = c served while the
\* hosted backend is connected (and answering) comes back with source
\* 'smithery' and at most c results, whatever text the gateway returns.
C21_AtMostCountResults ==
  (/\ HostedSearchServed /\ obs.name = "brave_web_search"
   /\ obs.sv.smitheryConnected /\ obs.params.count > 0) =>
    /\ Reply.status = 200 /\ Reply.data.success
    /\ Reply.data.result.source = "smithery"
    /\ Len(Reply.data.result.results) <= obs.params.count

\* the markers of text that are valid: an identifier followed by a
\* parenthesised object literal
ValidMarkers == SelectSeq(text, WellFormed)

\* C22 as claimed: for a text of N valid markers and M invalid or unparseable
\* segments in any interleaving, parseToolCalls returns exactly N requests, one
\* per valid marker in source order; a marker written twice is returned twice.
C22_OnePerValidMarker ==
  pc = "parsed" =>
    /\ Len(parsed) = Len(ValidMarkers)
    /\ \A j \in 1..Len(parsed) : parsed[j].marker = ValidMarkers[j].target

\* C23 as claimed: only a marker whose argument text is a structured literal
\* yields a request, and parsing leaves the program's state as it was.
C23_LiteralsOnly ==
  pc = "parsed" =>
    /\ \A j \in 1..Len(parsed) : parsed[j].arguments = "object"
    /\ Len(parsed) = Len(ValidMarkers)
    /\ availableTools = obs.tools

C25_ChatFailureEndsTurn ==
  output.kind = "error" =>
    /\ pc \in {"done", "prompt"}
    /\ toolCalls = <<>> /\ posts = <<>> /\ inflight = {}
    /\ toolResults = <<>> /\ summarySent = <<>>

C25_Witness ==
  pc = "done" /\ output.kind = "error" /\ HasTool(availableTools, "rugcheck")

\* name is in a listing POST /api/tools/list would answer in this state
ListedNow(name) ==
  \E io \in ListIO : HasTool(toolsList(env, Now, io).tools, name)

\* C26 as claimed: every call the CLI posts to the tool endpoint names a tool
\* of the current listing, the one the server would answer at the time of the
\* dispatch; a name that is not in it is not dispatched.
C26_DispatchedAreListed ==
  [][Len(posts') > Len(posts) => ListedNow(posts'[Len(posts')].name)]_vars

\* C27 as claimed: a call named 'brave-search' is served by the hosted Brave
\* Search whenever Smithery is connected, and by the local Brave Search API
\* only when Smithery is unavailable.
C27_BraveSearchPrefersHosted ==
  Called("brave-search") =>
    /\ (obs.sv.smitheryConnected /\ obs.io.net.request) =>
         /\ Reply.status = 200 /\ Reply.data.success
         /\ Reply.data.result.source = "smithery"
         /\ obs.out.locals = 0
    /\ obs.out.locals > 0 =>
         (env.smithery => StepFails(obs.sv.smitheryConnected, obs.io.net))

\* C28 as claimed: once a chat response has been received, the command
\* /feedback positive|negative [comment] submits feedback for it to the server
\* and the feedback is accepted.
C28_FeedbackSubmitted ==
  (/\ obs.op = "feedback" /\ obs.arg \in {"positive", "negative"}
   /\ obs.last \in {"reply", "summary", "fallback"}) =>
    /\ obs.posted
    /\ output.kind = "thanks"

\* the error texts of the tool endpoint that mention ORDISCAN_API_KEY
MentionsOrdiscanKey(error) ==
  \E i \in 1..Len(OrdiscanNames) :
    error = "Ordiscan " \o OrdiscanNames[i] \o " failed: "
              \o "ORDISCAN_API_KEY environment variable is required but not set"

\* C29 as claimed: an Ordiscan tool call to a server without ORDISCAN_API_KEY
\* is rejected with success = false and an error that mentions
\* ORDISCAN_API_KEY.
C29_MissingKeyNamed ==
  (obs.op = "call" /\ IsOrdiscan(obs.name) /\ ~env.ordiscan) =>
    /\ Reply.status = 500 /\ ~Reply.data.success
    /\ MentionsOrdiscanKey(Reply.data.error)

\* C30 as claimed: deciding which backend serves a request has no side
\* effect: a request named 'brave-search' that ends up served locally has
\* changed no connection state and has made no connection attempt against the
\* hosted gateway.
C30_ResolutionHasNoEffect ==
  (Called("brave-search") /\ obs.out.locals = 1) =>
    /\ obs.out.connects = 0
    /\ obs.out.sv = obs.sv
    /\ Now = obs.sv

\* C31: a failure of the hosted transport is recoverable: once Smithery is
\* marked disconnected, the next brave_web_search call made while the gateway
\* is reachable connects again (one connect) and is answered by the hosted
\* backend, source 'smithery', however many connects failed before it.
C31_ReconnectsWhenReachable ==
  (/\ Called("brave_web_search")
   /\ env.smithery /\ ~obs.sv.smitheryConnected
   /\ obs.io.net.connect /\ obs.io.net.request) =>
    /\ Reply.status = 200 /\ Reply.data.success
    /\ Reply.data.result.source = "smithery"
    /\ obs.out.connects = 1 /\ obs.out.locals = 0
    /\ smitheryConnected /\ isAvailable(smithery)

\* the reconnect follows more failed connects than ensureConnection() allows
C31_Witness ==
  /\ Called("brave_web_search")
  /\ env.smithery /\ ~obs.sv.smitheryConnected
  /\ obs.io.net.connect /\ obs.io.net.request
  /\ obs.failed > MaxReconnectAttempts
  /\ Reply.data.success /\ Reply.data.result.source = "smithery"
  /\ smitheryConnected

\* the descriptors of a listing that come from a hosted backend
FromSource(tools, source) ==
  SelectSeq(tools, LAMBDA tool : tool.source = source)

\* the connects a listing request makes against the two gateways
ListConnects(sv, io) ==
  hostedSection(sv.smitheryConnected, sv.smithery, io.net, SmitheryTools).connects
    + hostedSection(sv.ordiscanConnected, sv.ordiscan, io.onet,
                    OrdiscanTools).connects

\* C32: a listing made while a hosted backend is marked disconnected has none
\* of that backend's descriptors, makes no connection attempt and leaves the
\* backend disconnected; a backend goes from disconnected to connected only
\* in a tool call of its family that connected (or when the server starts).
C32_ListingNeverReconnects ==
  [][/\ obs'.op = "list" =>
          /\ ListConnects(obs'.sv, obs'.io) = 0
          /\ obs'.out.connects = 0
          /\ ~smitheryConnected =>
               /\ FromSource(obs'.out.tools, "smithery") = <<>>
               /\ ~smitheryConnected'
          /\ ~ordiscanConnected =>
               /\ FromSource(obs'.out.tools, "ordiscan") = <<>>
               /\ ~ordiscanConnected'
     /\ (~smitheryConnected /\ smitheryConnected') =>
          \/ pc = "boot"
          \/ /\ obs'.op \in {"call", "call-noparams"}
             /\ obs'.name \in BraveNames \cup {"brave_local_search"}
             /\ obs'.io.net.connect /\ obs'.out.connects = 1
     /\ (~ordiscanConnected /\ ordiscanConnected') =>
          \/ pc = "boot"
          \/ /\ obs'.op \in {"call", "call-noparams"}
             /\ IsOrdiscan(obs'.name) /\ obs'.io.onet.connect
    ]_vars

\* a listing asked for while Smithery is marked disconnected and its gateway
\* is reachable: no hosted descriptor, still disconnected
C32_Witness ==
  /\ obs.op = "list"
  /\ env.smithery /\ gatewayUp
  /\ obs.sv.smithery.client # "null" /\ ~obs.sv.smitheryConnected
  /\ FromSource(obs.out.tools, "smithery") = <<>>
  /\ ~smitheryConnected

\* the substrings the result shaping looks for, in its order, with the field
\* each of them stands for
FamilyKeys ==
  <<"address", "inscription", "brc20", "rune", "collection", "tx", "utxo",
    "sat">>

FamilyField ==
  <<"address", "inscription", "token", "rune", "collection", "transaction",
    "utxo", "satoshi">>

\* the Ordiscan tool names (without "ordiscan_") a substring occurs in
Containing(key) ==
  CASE key = "address" ->
         {"address_brc20_activity", "address_brc20", "address_inscriptions",
          "address_rare_sats", "address_runes", "address_utxos"}
    [] key = "inscription" ->
         {"collection_inscriptions", "inscription_info", "inscription_traits",
          "inscription_transfers", "inscriptions_activity",
          "inscriptions_detail", "inscriptions_list", "address_inscriptions",
          "tx_inscription_transfers", "tx_inscriptions"}
    [] key = "brc20" ->
         {"address_brc20_activity", "address_brc20", "brc20_info", "brc20_list"}
    [] key = "rune" ->
         {"rune_market", "rune_name_unlock", "runes_activity", "address_runes",
          "runes_list", "tx_runes"}
    [] key = "collection" ->
         {"collection_info", "collection_inscriptions", "collections_list"}
    [] key = "tx" ->
         {"tx_info", "tx_inscription_transfers", "tx_inscriptions", "tx_runes",
          "utxo_rare_sats", "utxo_sat_ranges", "address_utxos"}
    [] key = "utxo" ->
         {"utxo_rare_sats", "utxo_sat_ranges", "address_utxos"}
    [] key = "sat" ->
         {"address_rare_sats", "sat_info", "utxo_rare_sats", "utxo_sat_ranges"}

Occurs(key, name) == \E n \in Containing(key) : name = "ordiscan_" \o n

\* the field of the first substring of FamilyKeys that occurs in name
FirstFamily(name) ==
  LET hits == {k \in 1..Len(FamilyKeys) : Occurs(FamilyKeys[k], name)}
  IN  IF hits = {} THEN "none"
      ELSE FamilyField[CHOOSE k \in hits : \A j \in hits : k <= j]

\* C33: the result of a successful call of any of the 29 ordiscan_* tools
\* has tool = the requested name, source = 'ordiscan', data = the parsed
\* payload, and the subject field of the first of the substrings address,
\* inscription, brc20, rune, collection, tx, utxo, sat that occurs in the
\* name; a name with none of them has no subject field.
C33_SubjectByFirstSubstring ==
  pc = "looked" =>
    /\ IsOrdiscan(obs.name)
    /\ parsed.tool = obs.name
    /\ parsed.source = "ordiscan"
    /\ parsed.data = parsedData(text).value
    /\ parsed.subject = FirstFamily(obs.name)

\* a utxo tool, whose name has the substring tx before the chain asks for
\* utxo, with a JSON payload
C33_Witness ==
  /\ pc = "looked"
  /\ obs.name = "ordiscan_utxo_sat_ranges"
  /\ parsed.subject = "transaction"
  /\ hasText(text, "") /\ parsed.data = [json |-> text.content[1].text]

\* the two bodies a response of the call endpoint may have
SuccessBody(reply, name) ==
  /\ reply.status = 200
  /\ DOMAIN reply.data = {"success", "result", "tool"}
  /\ reply.data.success /\ reply.data.tool = name

FailureBody(reply, name) ==
  /\ reply.status = 500
  /\ DOMAIN reply.data = {"success", "error", "tool"}
  /\ ~reply.data.success /\ reply.data.tool = name
  /\ reply.data.error # ""

\* C34: every request to /api/tools/call, whatever the tool name (unknown
\* names included), whatever the backends do and whether or not the body has
\* params, is answered by {success: true, result, tool} or by HTTP 500 with
\* {success: false, error, tool}, never by a body with both a result and an
\* error.
C34_OneResponse ==
  obs.op \in {"call", "call-noparams"} =>
    /\ DOMAIN obs.out = {"sv", "connects", "locals", "reply"}
    /\ SuccessBody(Reply, obs.name) \/ FailureBody(Reply, obs.name)
    /\ ~(SuccessBody(Reply, obs.name) /\ FailureBody(Reply, obs.name))

\* an unknown tool name is answered with a 500
C34_Witness ==
  /\ Called("nosuch")
  /\ FailureBody(Reply, "nosuch")
  /\ Reply.data.error = "Unknown tool: nosuch"

\* a turn is being processed
InTurn == pc \in {"chat", "tools", "summary", "done"}

\* C35: the CLI handles one turn at a time: while a turn is processed no
\* question waits for input, between turns exactly one does, a turn starts
\* only by answering it, and the next prompt is issued only when the turn's
\* processing is over (every call of the batch has its result and the
\* summary was asked for).
C35_OneTurnAtATime ==
  [][/\ questions' = (IF pc' = "prompt" THEN 1 ELSE 0)
     /\ (InTurn' /\ ~InTurn) =>
          /\ pc = "prompt" /\ questions = 1 /\ pc' = "chat"
          /\ inflight = {} /\ toolCalls = <<>> /\ summarySent = <<>>
     /\ (InTurn /\ pc' = "chat") => pc = "chat"
     /\ (InTurn /\ questions' > questions) =>
          /\ pc = "done" /\ pc' = "prompt"
          /\ inflight = {}
          /\ Len(toolResults) = Len(toolCalls)
          /\ Len(summarySent) = (IF Len(toolCalls) > 0 THEN 1 ELSE 0)
    ]_vars

\* the prompt after a turn with a full batch and its summary
C35_Witness ==
  /\ pc = "prompt" /\ questions = 1
  /\ output.kind = "summary"
  /\ toolCalls = <<>> /\ inflight = {}

\* the listing has the descriptor [name, source]
Lists(tools, name, source) ==
  \E i \in 1..Len(tools) : tools[i] = Tool(name, source)

\* C36: no listing has both the Smithery descriptor of brave_web_search and
\* the local descriptor 'brave-search'; the local one is listed only when
\* BRAVE_API_KEY is set and Smithery is marked disconnected, and it is
\* listed when the hosted listTools fails during the listing request itself.
C36_NeverBothSearches ==
  obs.op = "list" =>
    /\ ~(/\ Lists(obs.out.tools, "brave_web_search", "smithery")
         /\ Lists(obs.out.tools, "brave-search", "local"))
    /\ Lists(obs.out.tools, "brave-search", "local") =>
         /\ env.brave /\ ~smitheryConnected
         /\ FromSource(obs.out.tools, "smithery") = <<>>
    /\ (env.brave /\ obs.sv.smitheryConnected /\ ~obs.io.net.request) =>
         /\ Lists(obs.out.tools, "brave-search", "local")
         /\ ~smitheryConnected

\* listTools fails during the listing and the local search is offered
C36_Witness ==
  /\ obs.op = "list"
  /\ env.brave /\ obs.sv.smitheryConnected /\ ~obs.io.net.request
  /\ Lists(obs.out.tools, "brave-search", "local")
  /\ FromSource(obs.out.tools, "smithery") = <<>>

\* the names a request for a marker of target may carry: the target itself or,
\* for brave-search, the hosted brave_web_search
Aliases(target) ==
  IF target = "brave-search" THEN {"brave-search", "brave_web_search"}
  ELSE {target}

\* C37 as claimed: a well-formed marker that names a tool of the listing,
\* the hyphenated local names included, is parsed into a request, and the
\* request names that tool or its hosted alias.
C37_ListedIsInvocable ==
  (pc = "parsed" /\ \A i \in 1..Len(text) : text[i].args \in {"object", "invalid"}) =>
    \A i \in 1..Len(ValidMarkers) :
      HasTool(obs.tools, ValidMarkers[i].target) =>
        /\ Len(parsed) = Len(ValidMarkers)
        /\ parsed[i].name \in Aliases(ValidMarkers[i].target)
        /\ HasTool(obs.tools, parsed[i].name)

\* C38: whatever methods of a SmitheryClient are called, in any order and
\* with any outcome, reconnectAttempts stays within 0..maxReconnectAttempts
\* and a session with isConnected = true holds a client.
C38_SessionFieldsInRange ==
  /\ smithery.reconnectAttempts \in 0..MaxReconnectAttempts
  /\ smithery.isConnected => smithery.client # "null"
  /\ obs.op # "none" =>
       /\ obs.pre.reconnectAttempts \in 0..MaxReconnectAttempts
       /\ obs.pre.isConnected => obs.pre.client # "null"

\* a callTool on a disconnected session whose counter is at its bound: the
\* counter stays there
C38_Witness ==
  /\ obs.op = "callTool"
  /\ ~obs.pre.isConnected
  /\ obs.pre.reconnectAttempts = MaxReconnectAttempts
  /\ smithery.reconnectAttempts = MaxReconnectAttempts
  /\ ~smithery.isConnected

\* no request is under way
Quiescent == pc = "serving" /\ \A p \in Requests : running[p].pc = "done"

\* the client the session holds is one whose connect succeeded and that was
\* not closed since
HoldsConnected ==
  smithery.client # "null" /\ objects[smithery.client] = "connected"

\* C39 as claimed: when two requests overlap, in whatever order their steps
\* between awaits are taken, a session with isConnected = true holds the
\* client whose connect succeeded, never one that is closed or still
\* connecting, and once both requests are answered smitheryConnected is
\* true only if the session is connected.
C39_ConsistentUnderOverlap ==
  pc = "serving" =>
    /\ smithery.isConnected => HoldsConnected
    /\ Quiescent => (smitheryConnected => smithery.isConnected)

====
